---- MODULE Spec2Model ----
(***************************************************************************)
(* State-machine model of the STM32 VS Code extension: the OpenOCD         *)
(* manager (server / flash / reset child processes), the CMake builder,    *)
(* the command handlers, launch.json generation, chip detection and the    *)
(* activation-time toolchain prompt.                                       *)
(***************************************************************************)
EXTENDS Integers, Sequences, FiniteSets, TLC

\* ------------------------------------------------------------------------
\* Bounds
\* ------------------------------------------------------------------------
MaxProcs == 3

MaxTasks == 2

\* Message boxes that can be on screen at once.
MaxMessages == 2

\* Configurations in a launch.json the user wrote.
MaxConfigs == 2

Pids == 1..MaxProcs

Tasks == 1..MaxTasks

\* Exit codes a 'close' event can carry.  "null" is Node's code for a child
\* terminated by a signal, "-2" the negative errno of a failed spawn.
ExitCodes == {"0", "1"}

VARIABLES
    proc,             \* child processes and the promise/closure state of their run
    timers,           \* the armed 3 second timers of start(), in the order armed
    openocdProcess,   \* OpenOCDManager.openocdProcess: 0 is null, else a pid
    justStopped,      \* the step that ran last was a call of stop() or deactivate()
    active            \* the extension is activated (deactivate() not yet called)

procVars == <<proc, timers>>

ocdVars == <<openocdProcess, justStopped, active>>

VARIABLES
    buildProcess,         \* CMakeBuilder.buildProcess: 0 is null, else a pid
    task,                 \* invocations of the build commands and where each stands
    cmakeToolsInstalled,  \* extensions.getExtension('ms-vscode.cmake-tools') is defined
                          \* (the installed extensions do not change during a session)
    workspaceOpen,        \* workspace.workspaceFolders is non-empty
    hasPresets,           \* CMakePresets.json or CMakeUserPresets.json exists
    cmakeCache            \* the CMakeCache.txt that build() looks for exists

envVars == <<cmakeToolsInstalled, workspaceOpen, hasPresets>>

cmakeVars == <<buildProcess, task, envVars, cmakeCache>>

VARIABLES
    handler,    \* the command handler that ran last and how it ended
    messages    \* the message boxes on screen, oldest first

cmdVars == <<handler, messages>>

VARIABLES
    launchJson,     \* .vscode/launch.json as it is on disk
    launchBefore,   \* the file as the last generateLaunchJson() call found it
    launchOutcome   \* how that call ended: "none", "written" or "thrown"

launchVars == <<launchJson, launchBefore, launchOutcome>>

VARIABLES
    project,    \* what the workspace holds for detectChip() to look at
    detect      \* the detectChip() call: where it is, what it has read, its result

chipVars == <<project, detect>>

VARIABLES
    settings,            \* the user's stm32.toolchainPath and stm32.openocdPath
    toolchainPrompted,   \* globalState 'stm32.toolchainPrompted'
    codeVariant,         \* which of the two versions of extension.ts is running
    session,             \* "inactive", "prompt" (the question is open) or "ready"
    startup              \* what the last activation found, whether it asked, the answer,
                         \* and the answer to the question of the activation before

promptVars == <<settings, toolchainPrompted, codeVariant, session, startup>>

VARIABLES
    lookup      \* a chip table entry and what the mapping functions return for it

VARIABLES
    firmware,   \* the .elf/.hex/.bin files under build/
    stm32ElfFile,   \* the user's stm32.elfFile setting ("" when not configured)
    flashSel    \* the flash() call: where its file selection stands, what it chose

flashVars == <<firmware, stm32ElfFile, flashSel>>

VARIABLES
    debugCfg,       \* the getOrCreateDebugConfig() call: where it stands
    buildTypeSync   \* selectBuildType(): its pending timers, the synchronisations run

VARIABLES
    reading,    \* the last read of a stm32.* key: by which component, what it got
    detection   \* the installed tool executables and the detectAll() call

scanVars == <<reading, detection>>

VARIABLES
    selectedChip,   \* the stm32.selectedChip setting ("" when not configured)
    chipStartup,    \* the autoDetectChipOnStartup() call: what it read, where it is
    debugCmd,       \* the stm32.debug command: its steps so far, the session started
    toolSettings,   \* the user's stm32.* settings the tool detection may write
    applyCall       \* the command applying a detection: where it is, what it wrote

\* The flows that end in a change of the settings or in a debug session.
flowVars == <<selectedChip, chipStartup, debugCmd, toolSettings, applyCall>>

\* The utility functions and dialogs the managers call.
utilVars == <<lookup, flashVars, debugCfg, buildTypeSync, scanVars, flowVars>>

\* utilVars without the variables of one of its parts.
notTableVars == <<flashVars, debugCfg, buildTypeSync, scanVars, flowVars>>

notFlashVars == <<lookup, debugCfg, buildTypeSync, scanVars, flowVars>>

notDebugCfgVars == <<lookup, flashSel, stm32ElfFile, buildTypeSync, scanVars, flowVars>>

notSyncVars == <<lookup, flashVars, debugCfg, scanVars, flowVars>>

notScanVars == <<lookup, flashVars, debugCfg, buildTypeSync, flowVars>>

notFlowVars == <<lookup, flashVars, debugCfg, buildTypeSync, scanVars>>

\* The state of the parts of the extension that run no child process.
featureVars == <<cmdVars, launchVars, chipVars, promptVars, utilVars>>

vars == <<procVars, ocdVars, cmakeVars, featureVars>>

\* No command has run and no message box is shown.
NoHandler == [cmd |-> "none", phase |-> "idle", failed |-> FALSE, message |-> "none"]

CmdIdle == handler = NoHandler /\ messages = <<>>

\* No .vscode/launch.json.
NoFile == [exists |-> FALSE, syntax |-> "json", hasConfigurations |-> FALSE,
           configurations |-> <<>>]

LaunchIdle == launchJson = NoFile /\ launchBefore = NoFile /\ launchOutcome = "none"

\* A workspace in which no source names a chip.
NoProject == [mcuName |-> "", userName |-> "", cmake |-> "", startup |-> "", linker |-> ""]

NoDetect == [pc |-> "idle", consulted |-> <<>>, chipName |-> ""]

ChipIdle == project = NoProject /\ detect = NoDetect

\* Nothing configured by the user ("unset": the key is not in the settings).
NoSettings == [toolchainPath |-> "unset", openocdPath |-> "unset"]

NoStartup == [unconfigured |-> FALSE, declined |-> FALSE, asked |-> FALSE, answer |-> "none",
              found |-> NoSettings, earlier |-> "notAsked"]

PromptIdle ==
    /\ settings = NoSettings
    /\ toolchainPrompted = FALSE
    /\ codeVariant = "src/extension.ts"
    /\ session = "ready"
    /\ startup = NoStartup

\* No table entry has been looked at.
NoLookup == [table |-> "none", index |-> 0, pc |-> "idle", target |-> "", family |-> ""]

\* No firmware file anywhere under build/.
NoFirmware == [projectElf |-> FALSE, otherElf |-> 0, hex |-> 0, bin |-> 0,
               matching |-> 0, other |-> 0]

\* flash() has not been called.
NoFlashCall == [pc |-> "idle", file |-> "none", listed |-> "none", searches |-> 0,
                builds |-> 0, warned |-> 0, dismissed |-> FALSE, spawns |-> 0]

FlashIdle == firmware = NoFirmware /\ stm32ElfFile = "" /\ flashSel = NoFlashCall

\* getOrCreateDebugConfig() has not been called.
NoDebugCfg == [pc |-> "idle", searches |-> 0, builds |-> 0, dismissed |-> FALSE]

\* selectBuildType() has not been called; nothing has been configured yet.
NoSync == [timers |-> <<>>, runs |-> 0, buildType |-> "Debug", latestDir |-> "none"]

\* No stm32.* key has been read.
NoReading == [component |-> "none", key |-> "none", raw |-> "unset", pc |-> "idle",
              got |-> "", value |-> ""]

\* A detector that found nothing returns null.
Null == [via |-> "none", name |-> "", dir |-> 0]

\* detectAll() has not been called.
NoDetectAll == [pc |-> "idle", gcc |-> Null, openocd |-> Null, cmake |-> Null,
                ninja |-> Null, tools |-> {}]

\* No tool is installed and nothing has been detected.
NoDetection == [installed |-> {}, call |-> NoDetectAll]

ScanIdle == reading = NoReading /\ detection = NoDetection

\* autoDetectChipOnStartup() has not been called.
NoChipStartup == [pc |-> "idle", currentChip |-> "", detectedChip |-> "", asked |-> FALSE,
                  choice |-> "none", write |-> "none"]

\* stm32.debug has not been run; Cortex-Debug is installed.
NoDebugCmd == [cortexDebug |-> TRUE, pc |-> "idle", log |-> <<>>, started |-> "none"]

\* A setting the user has not made, and one the user typed in.
NotSet == [via |-> "unset", name |-> "", dir |-> 0]

UserValue == [via |-> "user", name |-> "", dir |-> 0]

\* The keys applyDetectedTools() may write, and two of the other stm32.* keys.
AppliedKeys == {"toolchainPath", "openocdPath", "openocdScriptsPath", "cmakePath"}

OtherKeys == {"selectedChip", "elfFile"}

NoToolSettings == [k \in AppliedKeys \cup OtherKeys |-> NotSet]

\* The fields of DetectedTools that hold a path; an absent field reads as
\* undefined.
PathFields == {"gccPath", "openocdPath", "openocdScriptsPath", "cmakePath", "ninjaPath"}

NoTools == [f \in PathFields |-> Null]

\* No command applying a detection has run.
NoApplyCall == [cmd |-> "none", pc |-> "idle", scriptsDir |-> FALSE, tools |-> NoTools,
                choice |-> "none", message |-> "none", written |-> {}]

FlowsIdle ==
    /\ selectedChip = ""
    /\ chipStartup = NoChipStartup
    /\ debugCmd = NoDebugCmd
    /\ toolSettings = NoToolSettings
    /\ applyCall = NoApplyCall

UtilsIdle ==
    /\ lookup = NoLookup
    /\ FlashIdle
    /\ debugCfg = NoDebugCfg
    /\ buildTypeSync = NoSync
    /\ ScanIdle
    /\ FlowsIdle

\* The parts that run no child process, before anything has happened.
FeaturesIdle == CmdIdle /\ LaunchIdle /\ ChipIdle /\ PromptIdle /\ UtilsIdle

NoProc ==
    [kind |-> "none", life |-> "none", started |-> FALSE, promise |-> "none",
     reason |-> "", timer |-> "none", code |-> ""]

NoTask == [cmd |-> "none", todo |-> <<>>, stage |-> "none", pid |-> 0,
           out |-> "none", log |-> <<>>]

\* spawn(cmd, args, {shell: true}): the child either runs, or the spawn fails
\* and Node delivers 'error' followed by 'close'.
Spawned(kind, ok) ==
    [kind |-> kind, life |-> IF ok THEN "running" ELSE "spawnfailed",
     started |-> FALSE, promise |-> "pending", reason |-> "",
     timer |-> IF kind = "server" THEN "armed" ELSE "none", code |-> ""]

\* A promise settles once; later resolve()/reject() calls are ignored.
Resolve(p) ==
    IF p.promise = "pending" THEN [p EXCEPT !.promise = "resolved", !.reason = "ok"] ELSE p

Reject(p, why) ==
    IF p.promise = "pending" THEN [p EXCEPT !.promise = "rejected", !.reason = why] ELSE p

\* ChildProcess.kill(): signals a running child; no effect on one that has
\* already gone or never spawned.
Kill(p) ==
    IF p.life = "running" THEN [p EXCEPT !.life = "killed"] ELSE p

Alive(p) == proc[p].life \in {"running", "killed"}

isRunning == openocdProcess # 0

\* A slot of the process table pr for the ChildProcess object of the next
\* spawn: slot want when that is free, else the lowest free one.
HasFree(pr) == \E p \in Pids : pr[p].kind = "none"

FreeIn(pr, want) ==
    IF want \in Pids /\ pr[want].kind = "none"
    THEN want
    ELSE CHOOSE p \in Pids : pr[p].kind = "none" /\ \A q \in Pids : q < p => pr[q].kind # "none"

HasFreePid == HasFree(proc)

FreePid == FreeIn(proc, 0)

\* Node reports a failed spawn from process.nextTick: the 'error' event and
\* the 'close' event that follows it are delivered before any other command,
\* timer or I/O callback runs.
NoSpawnFailure == \A p \in Pids : proc[p].life \notin {"spawnfailed", "errored"}

\* A command whose awaited promise has settled continues in a microtask,
\* before any other event is dispatched.
Resumable(t) == task[t].pid # 0 /\ proc[task[t].pid].promise # "pending"

NoResume == \A t \in Tasks : ~Resumable(t)

\* A ChildProcess object that has closed, whose promise nobody awaits any
\* more and whose timer is not armed is unreachable and is collected.
Reapable(p) ==
    /\ proc[p].life = "exited"
    /\ proc[p].timer # "armed"
    /\ \A t \in Tasks : task[t].pid # p

\* A command handler that has shown its message returns.
Retirable(t) == task[t].cmd # "none" /\ task[t].todo = <<>> /\ task[t].stage = "none"

NoGarbage == (\A p \in Pids : ~Reapable(p)) /\ (\A t \in Tasks : ~Retirable(t))

Quiescent == NoSpawnFailure /\ NoResume /\ NoGarbage

\* A 'close' event can be dispatched for p.
CanClose(p) ==
    /\ NoResume
    /\ NoGarbage
    /\ \/ proc[p].life = "errored"
       \/ NoSpawnFailure /\ Alive(p)

\* An 'error' event can be dispatched for p.
CanError(p) == NoResume /\ NoGarbage /\ proc[p].life = "spawnfailed"

\* ------------------------------------------------------------------------
\* OpenOCDManager
\* ------------------------------------------------------------------------
\* No child process, both handles null, no build command running.
InitProcesses ==
    /\ proc = [p \in Pids |-> NoProc]
    /\ timers = <<>>
    /\ openocdProcess = 0
    /\ justStopped = FALSE
    /\ active = TRUE
    /\ buildProcess = 0
    /\ task = [t \in Tasks |-> NoTask]

\* The state right after activate().
InitIdle == InitProcesses /\ FeaturesIdle

\* The environment the commands run in.
InitEnv ==
    /\ cmakeToolsInstalled \in BOOLEAN
    /\ workspaceOpen \in BOOLEAN
    /\ hasPresets \in BOOLEAN
    /\ cmakeCache \in BOOLEAN

\* A workspace with a plain CMake project, CMake Tools absent, nothing built.
InitPlainEnv ==
    /\ cmakeToolsInstalled = FALSE
    /\ workspaceOpen = TRUE
    /\ hasPresets = FALSE
    /\ cmakeCache = FALSE

InitOCD == InitIdle /\ InitPlainEnv

\* The ChildProcess object p is collected.
Reap(p) ==
    /\ Reapable(p)
    /\ proc' = [proc EXCEPT ![p] = NoProc]
    /\ UNCHANGED <<timers, ocdVars, cmakeVars, featureVars>>

\* start(): returns at once when a handle is held, else spawns the server,
\* stores the handle and arms the 3 second timer.
start ==
    /\ active
    /\ Quiescent
    /\ justStopped' = FALSE
    /\ IF openocdProcess # 0
       THEN UNCHANGED <<openocdProcess, proc, timers, active, cmakeVars, featureVars>>
       ELSE /\ HasFreePid
            /\ \E ok \in BOOLEAN :
                 proc' = [proc EXCEPT ![FreePid] = Spawned("server", ok)]
            /\ openocdProcess' = FreePid
            /\ timers' = Append(timers, FreePid)
            /\ UNCHANGED <<active, cmakeVars, featureVars>>

\* stdout / stderr 'data' handler of start() on output that contains
\* 'Listening on port'.
OnListening(p) ==
    /\ proc[p].kind = "server"
    /\ Quiescent
    /\ Alive(p)
    /\ ~proc[p].started
    /\ proc' = [proc EXCEPT ![p] = Resolve([@ EXCEPT !.started = TRUE])]
    /\ justStopped' = FALSE
    /\ UNCHANGED <<openocdProcess, timers, active, cmakeVars, featureVars>>

\* The exit codes a closing child can report.
CloseCodes(p) ==
    CASE proc[p].life = "running" -> ExitCodes
      [] proc[p].life = "killed"  -> {"null"} \cup ExitCodes
      [] OTHER                    -> {"-2"}

\* 'close' handler of start(); the exit code only goes into the log line and
\* the rejection message.
OnServerClose(p) ==
    /\ proc[p].kind = "server"
    /\ CanClose(p)
    /\ LET q == [proc[p] EXCEPT !.life = "exited"]
       IN  proc' = [proc EXCEPT ![p] = IF ~q.started THEN Reject(q, "exit") ELSE q]
    /\ openocdProcess' = 0
    /\ justStopped' = FALSE
    /\ UNCHANGED <<timers, active, cmakeVars, featureVars>>

\* 'error' handler of start().
OnServerError(p) ==
    /\ proc[p].kind = "server"
    /\ CanError(p)
    /\ proc' = [proc EXCEPT ![p] = Reject([@ EXCEPT !.life = "errored"], "err")]
    /\ openocdProcess' = 0
    /\ justStopped' = FALSE
    /\ UNCHANGED <<timers, active, cmakeVars, featureVars>>

\* The setTimeout(..., 3000) callback of start(); timers of equal delay fire
\* in the order they were armed.
OnTimeout(p) ==
    /\ proc[p].kind = "server"
    /\ Quiescent
    /\ timers # <<>>
    /\ p = Head(timers)
    /\ timers' = Tail(timers)
    /\ LET q == [proc[p] EXCEPT !.timer = "fired"]
       IN  proc' = [proc EXCEPT ![p] =
                       IF ~q.started /\ openocdProcess # 0 THEN Resolve(q) ELSE q]
    /\ justStopped' = FALSE
    /\ UNCHANGED <<openocdProcess, active, cmakeVars, featureVars>>

\* Body of stop(): kill the process the handle refers to and drop the handle.
StopBody ==
    IF openocdProcess # 0
    THEN /\ proc' = [proc EXCEPT ![openocdProcess] = Kill(@)]
         /\ openocdProcess' = 0
    ELSE UNCHANGED <<openocdProcess, proc>>

stop ==
    /\ active
    /\ Quiescent
    /\ StopBody
    /\ justStopped' = TRUE
    /\ UNCHANGED <<timers, active, cmakeVars, featureVars>>

\* deactivate(): stops the OpenOCD manager.
deactivate ==
    /\ active
    /\ Quiescent
    /\ StopBody
    /\ active' = FALSE
    /\ justStopped' = TRUE
    /\ UNCHANGED <<timers, cmakeVars, featureVars>>

\* flash() / reset() once the arguments are built: each spawns an openocd
\* process of its own, whatever the handle holds.
SpawnOneShot(kind) ==
    /\ active
    /\ Quiescent
    /\ HasFreePid
    /\ \E ok \in BOOLEAN :
         proc' = [proc EXCEPT ![FreePid] = Spawned(kind, ok)]
    /\ justStopped' = FALSE
    /\ UNCHANGED <<timers, openocdProcess, active, cmakeVars, featureVars>>

flash == SpawnOneShot("flash")

reset == SpawnOneShot("reset")

\* A close handler that rejects only on a plain non-zero exit status.
CloseOutcome_SignalResolves(q, code) ==
    IF code \in {"0", "null"} THEN Resolve(q) ELSE Reject(q, code)

\* The 'close' handlers of flash(), reset(), runCMake() and runObjcopy():
\* resolve on exit code 0, else reject with a message that holds the code.
CloseOutcome(q, code) ==
    IF code = "0" THEN Resolve(q) ELSE Reject(q, code)

\* 'close' handler of flash() and reset().
OnOneShotClose(p) ==
    /\ proc[p].kind \in {"flash", "reset"}
    /\ CanClose(p)
    /\ \E code \in CloseCodes(p) :
         LET q == [proc[p] EXCEPT !.life = "exited", !.code = code]
         IN  proc' = [proc EXCEPT ![p] = CloseOutcome(q, code)]
    /\ justStopped' = FALSE
    /\ UNCHANGED <<openocdProcess, timers, active, cmakeVars, featureVars>>

\* 'error' handler of flash() and reset().
OnOneShotError(p) ==
    /\ proc[p].kind \in {"flash", "reset"}
    /\ CanError(p)
    /\ proc' = [proc EXCEPT ![p] = Reject([@ EXCEPT !.life = "errored"], "err")]
    /\ justStopped' = FALSE
    /\ UNCHANGED <<openocdProcess, timers, active, cmakeVars, featureVars>>

NextOCD ==
    \/ start
    \/ stop
    \/ deactivate
    \/ flash
    \/ reset
    \/ \E p \in Pids : OnListening(p)
    \/ \E p \in Pids : OnServerClose(p)
    \/ \E p \in Pids : OnServerError(p)
    \/ \E p \in Pids : OnTimeout(p)
    \/ \E p \in Pids : OnOneShotClose(p)
    \/ \E p \in Pids : OnOneShotError(p)
    \/ \E p \in Pids : Reap(p)

SpecOCD == InitOCD /\ [][NextOCD]_vars

\* ------------------------------------------------------------------------
\* CMakeBuilder and the build command handlers
\* ------------------------------------------------------------------------
\* A rebuild() that goes from clean() straight to build().
Ops_RebuildSkipsConfigure(cmd) ==
    CASE cmd = "build"       -> <<"build">>
      [] cmd = "clean"       -> <<"clean">>
      [] cmd = "rebuild"     -> <<"clean", "build">>
      [] cmd = "generateBin" -> <<"generateBinHex">>
      [] cmd = "debug"       -> <<"build">>

\* The CMakeBuilder operations a command handler awaits, in order.
Ops(cmd) ==
    CASE cmd = "build"       -> <<"build">>
      [] cmd = "clean"       -> <<"clean">>
      [] cmd = "rebuild"     -> <<"clean", "configure", "build">>
      [] cmd = "generateBin" -> <<"generateBinHex">>
      [] cmd = "debug"       -> <<"build">>

\* The CMake Tools command each operation delegates to.
DelegateCommand(op) ==
    CASE op = "configure" -> "cmake.configure"
      [] op = "build"     -> "cmake.build"
      [] op = "clean"     -> "cmake.clean"

\* The awaited operation threw: the handler's catch shows the error message.
Failed(tk) ==
    [tk EXCEPT !.todo = <<>>, !.stage = "none", !.pid = 0, !.out = "error"]

\* The awaited operation returned: go on with the next one; after the last
\* one the handler shows its success message.
Advance(tk) ==
    [tk EXCEPT !.todo = Tail(tk.todo), !.stage = "none", !.pid = 0,
               !.out = IF Tail(tk.todo) = <<>> THEN "info" ELSE "none"]

Logged(tk, what) == [tk EXCEPT !.log = Append(tk.log, what)]

\* runCMake(args, cwd): spawn cmake and keep the handle in buildProcess.
runCMake(t, tk, stage, pr) ==
    /\ HasFree(pr)
    /\ \E ok \in BOOLEAN :
         proc' = [pr EXCEPT ![FreeIn(pr, t)] = Spawned("cmake", ok)]
    /\ buildProcess' = FreeIn(pr, t)
    /\ task' = [task EXCEPT ![t] =
                   [Logged(tk, stage) EXCEPT !.stage = stage, !.pid = FreeIn(pr, t)]]

\* runObjcopy(objcopyPath, args): spawn objcopy; no handle is kept.
runObjcopy(t, tk, stage, pr) ==
    /\ HasFree(pr)
    /\ \E ok \in BOOLEAN :
         proc' = [pr EXCEPT ![FreeIn(pr, t)] = Spawned("objcopy", ok)]
    /\ task' = [task EXCEPT ![t] =
                   [Logged(tk, stage) EXCEPT !.stage = stage, !.pid = FreeIn(pr, t)]]
    /\ UNCHANGED buildProcess

\* The task only changes its own record.
TaskOnly(t, tk, pr) ==
    /\ task' = [task EXCEPT ![t] = tk]
    /\ proc' = pr
    /\ UNCHANGED buildProcess

\* configure() / build() / clean() with CMake Tools installed:
\* executeCommand('cmake.<op>') is called and awaited.
Delegate(t, tk, op, pr) ==
    TaskOnly(t, [Logged(tk, DelegateCommand(op)) EXCEPT !.stage = DelegateCommand(op)], pr)

\* A build() that never looks for CMakeCache.txt and compiles at once.
SpawnOp_NeverConfigures(t, tk, op, pr) ==
    IF ~workspaceOpen
    THEN TaskOnly(t, Failed(tk), pr)
    ELSE CASE op = "configure" -> runCMake(t, tk, "configure", pr)
           [] op = "build"     -> runCMake(t, tk, "compile", pr)
           [] op = "clean"     -> runCMake(t, tk, "clean", pr)

\* configure() / build() / clean() without CMake Tools, up to the spawn;
\* build() configures first when the CMakeCache.txt it looks for is absent.
SpawnOp(t, tk, op, pr) ==
    IF ~workspaceOpen
    THEN TaskOnly(t, Failed(tk), pr)
    ELSE CASE op = "configure" -> runCMake(t, tk, "configure", pr)
           [] op = "build"     -> IF cmakeCache
                                  THEN runCMake(t, tk, "compile", pr)
                                  ELSE runCMake(t, tk, "build.configure", pr)
           [] op = "clean"     -> runCMake(t, tk, "clean", pr)

\* generateBinHex() up to the first objcopy: getElfFile() finds an ELF file
\* or not.
BinOp(t, tk, pr) ==
    IF ~workspaceOpen
    THEN TaskOnly(t, Failed(tk), pr)
    ELSE \E elf \in BOOLEAN :
            IF elf THEN runObjcopy(t, tk, "bin", pr) ELSE TaskOnly(t, Failed(tk), pr)

\* A builder whose operations never look for CMake Tools.
Continue_NoDelegation(t, tk, pr) ==
    IF tk.todo = <<>>
    THEN TaskOnly(t, tk, pr)
    ELSE LET op == Head(tk.todo)
         IN  IF op = "generateBinHex" THEN BinOp(t, tk, pr)
             ELSE SpawnOp(t, tk, op, pr)

\* The handler whose record is tk calls the CMakeBuilder operation that is
\* next on its list, or returns after the last one.
Continue(t, tk, pr) ==
    IF tk.todo = <<>>
    THEN TaskOnly(t, tk, pr)
    ELSE LET op == Head(tk.todo)
         IN  IF op = "generateBinHex" THEN BinOp(t, tk, pr)
             ELSE IF cmakeToolsInstalled THEN Delegate(t, tk, op, pr)
             ELSE SpawnOp(t, tk, op, pr)

\* A command handler is invoked (stm32.build, stm32.clean, stm32.rebuild,
\* stm32.generateBin) and runs up to the first promise it has to wait for.
Invoke(cmd) ==
    /\ active
    /\ Quiescent
    /\ \E t \in Tasks :
         /\ task[t].cmd = "none"
         /\ \A u \in Tasks : u < t => task[u].cmd # "none"
         /\ Continue(t, [NoTask EXCEPT !.cmd = cmd, !.todo = Ops(cmd)], proc)
    /\ justStopped' = FALSE
    /\ UNCHANGED <<timers, openocdProcess, active, envVars, featureVars, cmakeCache>>

stm32Build == Invoke("build")

stm32Clean == Invoke("clean")

stm32Rebuild == Invoke("rebuild")

stm32GenerateBin == Invoke("generateBin")

\* executeCommand('cmake.<op>') returns or throws.
DelegateDone(t) ==
    /\ Quiescent
    /\ task[t].stage \in {"cmake.configure", "cmake.build", "cmake.clean"}
    /\ \E ok \in BOOLEAN :
         IF ok THEN Continue(t, Advance(task[t]), proc) ELSE TaskOnly(t, Failed(task[t]), proc)
    /\ justStopped' = FALSE
    /\ UNCHANGED <<timers, openocdProcess, active, envVars, featureVars, cmakeCache>>

\* A clean() without the catch block: the failure of the cmake run is thrown on.
DeleteBuildDir_Rethrows(t, pr) ==
    /\ TaskOnly(t, Failed(task[t]), pr)
    /\ UNCHANGED cmakeCache

\* clean(): the catch block after a failed 'cmake --target clean' deletes the
\* build directory; a failure of the deletion is only logged.
DeleteBuildDir(t, pr) ==
    /\ Continue(t, Advance(Logged(task[t], "delete")), pr)
    /\ \E deleted \in BOOLEAN : cmakeCache' = (cmakeCache /\ ~deleted)

\* With its promise consumed, the ChildProcess object p of a run that has
\* closed is unreachable: the process table without it.
Released(p) ==
    IF proc[p].life = "exited" /\ proc[p].timer # "armed"
    THEN [proc EXCEPT ![p] = NoProc]
    ELSE proc

\* The continuation of a handler after the promise it awaited has settled.
Resume(t) ==
    /\ Resumable(t)
    /\ LET ok == proc[task[t].pid].promise = "resolved"
           st == task[t].stage
           pr == Released(task[t].pid)
       IN  CASE st = "clean" /\ ~ok -> DeleteBuildDir(t, pr)
             [] st = "build.configure" /\ ok ->
                    runCMake(t, task[t], "compile", pr) /\ UNCHANGED cmakeCache
             [] st = "bin" /\ ok ->
                    runObjcopy(t, task[t], "hex", pr) /\ UNCHANGED cmakeCache
             [] OTHER ->
                    /\ IF ok THEN Continue(t, Advance(task[t]), pr)
                             ELSE TaskOnly(t, Failed(task[t]), pr)
                    /\ UNCHANGED cmakeCache
    /\ justStopped' = FALSE
    /\ UNCHANGED <<timers, openocdProcess, active, envVars, featureVars>>

\* The handler of task t returns.
Retire(t) ==
    /\ Retirable(t)
    /\ task' = [task EXCEPT ![t] = NoTask]
    /\ UNCHANGED <<procVars, ocdVars, buildProcess, envVars, featureVars, cmakeCache>>

\* The stage of the runCMake call that spawned p.
StageOf(p) ==
    IF \E t \in Tasks : task[t].pid = p
    THEN task[CHOOSE t \in Tasks : task[t].pid = p].stage
    ELSE "none"

\* 'close' handler of runCMake().  A configure run that exits with 0 has
\* written its CMakeCache.txt (for a preset project into the preset's binary
\* directory, which need not be build/<buildType>).
OnCMakeClose(p) ==
    /\ proc[p].kind = "cmake"
    /\ CanClose(p)
    /\ \E code \in CloseCodes(p) :
         /\ proc' = [proc EXCEPT ![p] = CloseOutcome([@ EXCEPT !.life = "exited", !.code = code], code)]
         /\ IF code = "0" /\ StageOf(p) \in {"configure", "build.configure"}
            THEN IF hasPresets
                 THEN cmakeCache' \in {cmakeCache, TRUE}
                 ELSE cmakeCache' = TRUE
            ELSE UNCHANGED cmakeCache
    /\ buildProcess' = 0
    /\ justStopped' = FALSE
    /\ UNCHANGED <<timers, openocdProcess, active, task, envVars, featureVars>>

\* 'error' handler of runCMake().
OnCMakeError(p) ==
    /\ proc[p].kind = "cmake"
    /\ CanError(p)
    /\ proc' = [proc EXCEPT ![p] = Reject([@ EXCEPT !.life = "errored"], "err")]
    /\ buildProcess' = 0
    /\ justStopped' = FALSE
    /\ UNCHANGED <<timers, openocdProcess, active, task, envVars, featureVars, cmakeCache>>

\* 'close' handler of runObjcopy().
OnObjcopyClose(p) ==
    /\ proc[p].kind = "objcopy"
    /\ CanClose(p)
    /\ \E code \in CloseCodes(p) :
         proc' = [proc EXCEPT ![p] = CloseOutcome([@ EXCEPT !.life = "exited", !.code = code], code)]
    /\ justStopped' = FALSE
    /\ UNCHANGED <<timers, openocdProcess, active, cmakeVars, featureVars>>

\* 'error' handler of runObjcopy().
OnObjcopyError(p) ==
    /\ proc[p].kind = "objcopy"
    /\ CanError(p)
    /\ proc' = [proc EXCEPT ![p] = Reject([@ EXCEPT !.life = "errored"], "err")]
    /\ justStopped' = FALSE
    /\ UNCHANGED <<timers, openocdProcess, active, cmakeVars, featureVars>>

\* cancelBuild(): kill the process the handle refers to and drop the handle.
cancelBuild ==
    /\ active
    /\ Quiescent
    /\ buildProcess # 0
    /\ proc' = [proc EXCEPT ![buildProcess] = Kill(@)]
    /\ buildProcess' = 0
    /\ justStopped' = FALSE
    /\ UNCHANGED <<timers, openocdProcess, active, task, envVars, featureVars, cmakeCache>>

InitCMake == InitIdle /\ InitEnv

\* The build commands as the extension drives them, in any environment
\* (cancelBuild() is bound to no command).
NextCMake ==
    \/ stm32Build
    \/ stm32Clean
    \/ stm32Rebuild
    \/ \E t \in Tasks : DelegateDone(t)
    \/ \E t \in Tasks : Resume(t)
    \/ \E p \in Pids : OnCMakeClose(p)
    \/ \E p \in Pids : OnCMakeError(p)
    \/ \E p \in Pids : Reap(p)
    \/ \E t \in Tasks : Retire(t)

SpecCMake == InitCMake /\ [][NextCMake]_vars

\* The external tool runs of both managers together, in a workspace with a
\* plain CMake project and without CMake Tools.
NextTools ==
    \/ stm32Build
    \/ stm32GenerateBin
    \/ \E t \in Tasks : Resume(t)
    \/ \E p \in Pids : OnCMakeClose(p)
    \/ \E p \in Pids : OnCMakeError(p)
    \/ \E p \in Pids : OnObjcopyClose(p)
    \/ \E p \in Pids : OnObjcopyError(p)
    \/ cancelBuild
    \/ flash
    \/ reset
    \/ \E p \in Pids : OnOneShotClose(p)
    \/ \E p \in Pids : OnOneShotError(p)
    \/ \E p \in Pids : Reap(p)
    \/ \E t \in Tasks : Retire(t)

SpecTools == InitOCD /\ [][NextTools]_vars

\* ------------------------------------------------------------------------
\* The registered commands: what each handler does with a failure of the
\* operation it invokes
\* ------------------------------------------------------------------------
\* A handler whose operation sits in try { ... } catch: a failure ends in
\* showErrorMessage, a success in the handler's own message (if any).
TryCatch(cmd, failed, message) ==
    [cmd |-> cmd, phase |-> "returned", failed |-> failed,
     message |-> IF failed THEN "error" ELSE message]

\* A handler that awaits its operation outside any try block: a failure
\* rejects the command, and nothing is shown.
Bare(cmd, failed, message) ==
    [cmd |-> cmd, phase |-> IF failed THEN "rejected" ELSE "returned", failed |-> failed,
     message |-> IF failed THEN "none" ELSE message]

\* The handler ends as h; the message box it shows goes on screen.
Handled(h) ==
    /\ active
    /\ handler' = h
    /\ IF h.message = "none"
       THEN UNCHANGED messages
       ELSE /\ Len(messages) < MaxMessages
            /\ messages' = Append(messages, h.message)
    /\ UNCHANGED <<procVars, ocdVars, cmakeVars, launchVars, chipVars, promptVars, utilVars>>

\* config.update(key, value, ConfigurationTarget.Workspace): rejects without
\* an open workspace, and whenever the settings file cannot be written.
WorkspaceUpdateFails(writeOk) == ~workspaceOpen \/ ~writeOk

\* stm32.selectChip, stm32.selectDebugger, stm32.selectBuildType: the user
\* picks an item or dismisses the list; a pick is written to the workspace
\* settings.
SelectAndSave(cmd) ==
    \E picked \in BOOLEAN, writeOk \in BOOLEAN :
        Handled(Bare(cmd, picked /\ WorkspaceUpdateFails(writeOk), "none"))

stm32SelectChip == SelectAndSave("stm32.selectChip")

stm32SelectDebugger == SelectAndSave("stm32.selectDebugger")

stm32SelectBuildType == SelectAndSave("stm32.selectBuildType")

\* stm32.build, stm32.rebuild, stm32.generateBin, stm32.flash,
\* stm32.openocdStart, stm32.generateLaunchConfig: the operation in a try
\* block, a success message after it.
Guarded(cmd) ==
    \E failed \in BOOLEAN : Handled(TryCatch(cmd, failed, "info"))

GuardedCommands ==
    {"stm32.build", "stm32.rebuild", "stm32.generateBin", "stm32.flash",
     "stm32.openocdStart", "stm32.generateLaunchConfig"}

stm32Guarded == \E cmd \in GuardedCommands : Guarded(cmd)

\* stm32.clean.  Through CMake Tools a failure of cmake.clean is thrown on.
\* Otherwise clean() itself catches the failure of 'cmake --target clean',
\* deletes the build directory and only logs a failure of the deletion: it
\* returns normally even when nothing was cleaned.
stm32CleanCommand ==
    IF cmakeToolsInstalled
    THEN \E failed \in BOOLEAN : Handled(TryCatch("stm32.clean", failed, "info"))
    ELSE IF ~workspaceOpen
    THEN Handled(TryCatch("stm32.clean", TRUE, "info"))
    ELSE \E cleanOk \in BOOLEAN, deleteOk \in BOOLEAN :
            Handled([TryCatch("stm32.clean", FALSE, "info") EXCEPT
                        !.failed = ~cleanOk /\ ~deleteOk])

\* stm32.debug: everything in one try block; debugging starts without a
\* message box of the extension.
stm32Debug ==
    \E failed \in BOOLEAN : Handled(TryCatch("stm32.debug", failed, "none"))

\* stm32.openocdStop: stop() cannot fail.
stm32OpenocdStop == Handled(Bare("stm32.openocdStop", FALSE, "info"))

\* stm32.detectToolchain: nothing found ends in a warning; what was found
\* is written to the user settings when the user agrees.
stm32DetectToolchain ==
    \E found \in BOOLEAN, apply \in BOOLEAN, writeOk \in BOOLEAN :
        Handled(Bare("stm32.detectToolchain", found /\ apply /\ ~writeOk,
                     IF ~found THEN "warning" ELSE IF apply THEN "info" ELSE "none"))

\* stm32.autoDetectToolchain: what was found is written to the user
\* settings without asking.
stm32AutoDetectToolchain ==
    \E found \in BOOLEAN, writeOk \in BOOLEAN :
        Handled(Bare("stm32.autoDetectToolchain", found /\ ~writeOk, "none"))

\* stm32.autoDetectChip: a detected chip is written to the workspace
\* settings; none detected ends in a warning.
stm32AutoDetectChip ==
    \E found \in BOOLEAN, writeOk \in BOOLEAN :
        Handled(Bare("stm32.autoDetectChip", found /\ WorkspaceUpdateFails(writeOk),
                     IF found THEN "info" ELSE "warning"))

\* stm32.serial.toggle / connect / disconnect / send / show: terminal
\* operations awaited outside any try block.
SerialCommands ==
    {"stm32.serial.toggle", "stm32.serial.connect", "stm32.serial.disconnect",
     "stm32.serial.send", "stm32.serial.show"}

stm32Serial ==
    \E cmd \in SerialCommands :
        Handled(Bare(cmd, FALSE, IF cmd = "stm32.serial.disconnect" THEN "info" ELSE "none"))

\* The user closes the oldest message box.
Dismiss ==
    /\ messages # <<>>
    /\ messages' = Tail(messages)
    /\ UNCHANGED <<handler, procVars, ocdVars, cmakeVars, launchVars, chipVars, promptVars, utilVars>>

InitCommands == InitIdle /\ InitEnv

NextCommands ==
    \/ stm32SelectChip
    \/ stm32SelectDebugger
    \/ stm32SelectBuildType
    \/ stm32Guarded
    \/ stm32CleanCommand
    \/ stm32Debug
    \/ stm32OpenocdStop
    \/ stm32DetectToolchain
    \/ stm32AutoDetectToolchain
    \/ stm32AutoDetectChip
    \/ stm32Serial
    \/ Dismiss

SpecCommands == InitCommands /\ [][NextCommands]_vars

\* ------------------------------------------------------------------------
\* DebugConfigGenerator.generateLaunchJson
\* ------------------------------------------------------------------------
\* The configuration createDebugConfigAsync() builds.
debugConfig == [type |-> "cortex-debug", servertype |-> "openocd", name |-> "STM32 Debug"]

\* Configurations a launch.json may hold before the call.
ExistingConfigs ==
    {[type |-> "cortex-debug", servertype |-> "openocd", name |-> "STM32 (earlier)"],
     [type |-> "cortex-debug", servertype |-> "jlink", name |-> "J-Link"],
     [type |-> "node", servertype |-> "", name |-> "Launch Program"]}

SeqsUpTo(S, n) == UNION {[1..k -> S] : k \in 0..n}

\* What the user may have in .vscode/launch.json: no file; a JSON object
\* with a configurations array; the same with comments or trailing commas,
\* as VS Code writes and accepts it; a JSON object without configurations.
LaunchFiles ==
    {NoFile}
    \cup {[exists |-> TRUE, syntax |-> sx, hasConfigurations |-> TRUE, configurations |-> cs] :
             sx \in {"json", "jsonc"}, cs \in SeqsUpTo(ExistingConfigs, MaxConfigs)}
    \cup {[exists |-> TRUE, syntax |-> "json", hasConfigurations |-> FALSE,
            configurations |-> <<>>]}

\* JSON.parse(content): accepts plain JSON only.
JSONParses(file) == file.syntax = "json"

\* configurations.findIndex(c => c.type === 'cortex-debug' &&
\* c.servertype === 'openocd'), 0 standing for -1.
existingIndex(cs) ==
    LET hits == {i \in 1..Len(cs) : cs[i].type = "cortex-debug" /\ cs[i].servertype = "openocd"}
    IN  IF hits = {} THEN 0 ELSE CHOOSE i \in hits : \A j \in hits : i <= j

\* Replace the entry found, or push.
WithDebugConfig(cs) ==
    IF existingIndex(cs) > 0
    THEN [cs EXCEPT ![existingIndex(cs)] = debugConfig]
    ELSE Append(cs, debugConfig)

\* JSON.stringify(launchJson, null, 4) written to the file.
Written(cs) ==
    [exists |-> TRUE, syntax |-> "json", hasConfigurations |-> TRUE, configurations |-> cs]

\* generateLaunchJson(): throws without a workspace or an ELF file, and
\* when the parsed object has no configurations array; a file that
\* JSON.parse rejects is replaced by an empty configuration list.
generateLaunchJson ==
    /\ active
    /\ launchBefore' = launchJson
    /\ \E elfFile \in BOOLEAN :
         IF ~workspaceOpen \/ ~elfFile
         THEN launchOutcome' = "thrown" /\ UNCHANGED launchJson
         ELSE IF ~launchJson.exists
         THEN launchOutcome' = "written" /\ launchJson' = Written(<<debugConfig>>)
         ELSE IF ~JSONParses(launchJson)
         THEN launchOutcome' = "written" /\ launchJson' = Written(WithDebugConfig(<<>>))
         ELSE IF ~launchJson.hasConfigurations
         THEN launchOutcome' = "thrown" /\ UNCHANGED launchJson
         ELSE /\ launchOutcome' = "written"
              /\ launchJson' = Written(WithDebugConfig(launchJson.configurations))
    /\ UNCHANGED <<procVars, ocdVars, cmakeVars, cmdVars, chipVars, promptVars, utilVars>>

\* The user edits launch.json.
EditLaunchJson ==
    /\ launchJson' \in LaunchFiles
    /\ launchJson' # launchJson
    /\ launchOutcome' = "none"
    /\ UNCHANGED <<launchBefore, procVars, ocdVars, cmakeVars, cmdVars, chipVars, promptVars, utilVars>>

InitLaunch ==
    /\ InitProcesses
    /\ InitEnv
    /\ CmdIdle
    /\ ChipIdle
    /\ PromptIdle
    /\ UtilsIdle
    /\ launchJson \in LaunchFiles
    /\ launchBefore = NoFile
    /\ launchOutcome = "none"

NextLaunch == generateLaunchJson \/ EditLaunchJson

SpecLaunch == InitLaunch /\ [][NextLaunch]_vars

\* ------------------------------------------------------------------------
\* ProjectDetector.detectChip
\* ------------------------------------------------------------------------
\* The value of Mcu.Name in the .ioc file ("" when the key or the file is
\* absent), as STM32CubeMX writes it.
McuNames == {"", "STM32F103C(8-B)Tx"}

\* The value of Mcu.UserName in the .ioc file.
UserNames == {"", "STM32F103C8Tx", "MyBoard"}

\* The chip macro CMakeLists.txt names, "" when no pattern matches.
CMakeChips == {"", "STM32F407xx", "stm32g431xx"}

\* The base name of the first startup_stm32*.s file, "" when there is none.
StartupFiles == {"", "startup_stm32f103xb"}

\* The base name of the linker script, "" when there is none.
LinkerScripts == {"", "STM32F103C8Tx_FLASH", "sections"}

\* String.prototype.toUpperCase on the names above.
toUpperCase(str) ==
    CASE str = "STM32F103C8Tx" -> "STM32F103C8TX"
      [] str = "STM32F407xx"   -> "STM32F407XX"
      [] str = "stm32g431xx"   -> "STM32G431XX"
      [] str = "stm32f103xb"   -> "STM32F103XB"
      [] OTHER                 -> str

normalizeChipName(name) == toUpperCase(name)

\* content.match(/Mcu\.Name=(\w+)/)?.[1]: the word the value starts with.
mcuMatch(value) ==
    CASE value = "STM32F103C(8-B)Tx" -> "STM32F103C"
      [] OTHER                       -> ""

\* content.match(/Mcu\.UserName=(STM32\w+)/)?.[1].
userNameMatch(value) ==
    CASE value = "STM32F103C8Tx" -> "STM32F103C8Tx"
      [] OTHER                   -> ""

\* detectFromIOC with Mcu.Name consulted before Mcu.UserName.
detectFromIOC_McuNameFirst(pj) ==
    IF mcuMatch(pj.mcuName) # "" \/ userNameMatch(pj.userName) # ""
    THEN normalizeChipName(IF mcuMatch(pj.mcuName) # ""
                           THEN mcuMatch(pj.mcuName)
                           ELSE userNameMatch(pj.userName))
    ELSE ""

\* detectFromIOC: userNameMatch?.[1] || mcuMatch?.[1] || ''.
detectFromIOC(pj) ==
    IF mcuMatch(pj.mcuName) # "" \/ userNameMatch(pj.userName) # ""
    THEN normalizeChipName(IF userNameMatch(pj.userName) # ""
                           THEN userNameMatch(pj.userName)
                           ELSE mcuMatch(pj.mcuName))
    ELSE ""

\* detectFromCMakeLists: the first pattern that matches.
detectFromCMakeLists(pj) == normalizeChipName(pj.cmake)

\* detectFromStartupFile: fileName.match(/startup_(stm32\w+)/i)[1].
detectFromStartupFile(pj) ==
    CASE pj.startup = "startup_stm32f103xb" -> normalizeChipName(toUpperCase("stm32f103xb"))
      [] OTHER                              -> ""

\* detectFromLinkerScript:
\* fileName.match(/(STM32\w+?)(?:Tx|_FLASH|_RAM)?$/i)[1].
detectFromLinkerScript(pj) ==
    CASE pj.linker = "STM32F103C8Tx_FLASH" -> normalizeChipName(toUpperCase("STM32F103C8Tx"))
      [] OTHER                              -> ""

\* The sources in the order detectChip() goes through them.
Sources == <<"ioc", "cmake", "startup", "linker">>

Detector(src, pj) ==
    CASE src = "ioc"     -> detectFromIOC(pj)
      [] src = "cmake"   -> detectFromCMakeLists(pj)
      [] src = "startup" -> detectFromStartupFile(pj)
      [] src = "linker"  -> detectFromLinkerScript(pj)

\* detectChip() is called: without a workspace folder it returns {} at once.
detectChip ==
    /\ active
    /\ detect.pc \in {"idle", "done"}
    /\ detect' = IF workspaceOpen
                 THEN [pc |-> "ioc", consulted |-> <<>>, chipName |-> ""]
                 ELSE [pc |-> "done", consulted |-> <<>>, chipName |-> ""]
    /\ UNCHANGED <<project, procVars, ocdVars, cmakeVars, cmdVars, launchVars, promptVars, utilVars>>

\* info = await this.detectFrom...(rootPath); if (info.chipName) return info;
\* after the last source info is returned as it is.
DetectStep(i) ==
    /\ detect.pc = Sources[i]
    /\ LET chip == Detector(Sources[i], project)
       IN  detect' = [pc |-> IF chip # "" \/ i = Len(Sources) THEN "done" ELSE Sources[i + 1],
                      consulted |-> Append(detect.consulted, Sources[i]),
                      chipName |-> chip]
    /\ UNCHANGED <<project, procVars, ocdVars, cmakeVars, cmdVars, launchVars, promptVars, utilVars>>

InitChip ==
    /\ InitProcesses
    /\ InitEnv
    /\ CmdIdle
    /\ LaunchIdle
    /\ PromptIdle
    /\ UtilsIdle
    /\ project \in [mcuName : McuNames, userName : UserNames, cmake : CMakeChips,
                     startup : StartupFiles, linker : LinkerScripts]
    /\ detect = NoDetect

NextChip == detectChip \/ \E i \in 1..Len(Sources) : DetectStep(i)

SpecChip == InitChip /\ [][NextChip]_vars

\* ------------------------------------------------------------------------
\* Activation: checkAndAutoDetectToolchain
\* ------------------------------------------------------------------------
\* The default of stm32.openocdPath the extension contributes (README,
\* table of settings).
DefaultOpenocdPath == "openocd"

ToolchainPaths == {"unset", "", "/opt/gcc-arm/bin"}

OpenocdPaths == {"unset", "", "/opt/openocd/bin/openocd"}

CodeVariants == {"src/extension.ts", "src/unnamed/part_009"}

\* config.get<string>(key): the user's value, else the contributed default
\* (stm32.toolchainPath has the empty default).
ConfigGet(key) ==
    IF settings[key] # "unset" THEN settings[key]
    ELSE IF key = "openocdPath" THEN DefaultOpenocdPath ELSE ""

\* getSTM32Config(): toolchainPath || '' and openocdPath || 'openocd'.
getSTM32Config ==
    [toolchainPath |-> ConfigGet("toolchainPath"),
     openocdPath   |-> IF ConfigGet("openocdPath") # "" THEN ConfigGet("openocdPath")
                       ELSE "openocd"]

\* The two paths as checkAndAutoDetectToolchain reads them: with
\* config.get in src/extension.ts, through getSTM32Config() in part_009.
PathsRead ==
    IF codeVariant = "src/extension.ts"
    THEN [toolchainPath |-> ConfigGet("toolchainPath"), openocdPath |-> ConfigGet("openocdPath")]
    ELSE getSTM32Config

\* The user has set neither path.
Unconfigured ==
    settings.toolchainPath \in {"unset", ""} /\ settings.openocdPath \in {"unset", ""}

\* activate() calls checkAndAutoDetectToolchain(context): the question is
\* put when both paths read are empty and 'stm32.toolchainPrompted' is not
\* set.
activate ==
    /\ session = "inactive"
    /\ LET ask == PathsRead.toolchainPath = "" /\ PathsRead.openocdPath = ""
                   /\ ~toolchainPrompted
       IN  /\ session' = IF ask THEN "prompt" ELSE "ready"
           /\ startup' = [unconfigured |-> Unconfigured, declined |-> toolchainPrompted,
                           asked |-> ask, answer |-> "none", found |-> settings,
                           earlier |-> IF startup.asked THEN startup.answer ELSE "notAsked"]
    /\ UNCHANGED <<settings, toolchainPrompted, codeVariant>>
    /\ UNCHANGED <<procVars, ocdVars, cmakeVars, cmdVars, launchVars, chipVars, utilVars>>

\* Closing the question is taken for 'do not ask again' as well.
Answer_DismissDeclines ==
    /\ session = "prompt"
    /\ session' = "ready"
    /\ \E choice \in {"autoFind", "manual", "never", "closed"} :
         /\ startup' = [startup EXCEPT !.answer = choice]
         /\ CASE choice = "autoFind" ->
                   /\ \E gcc \in {"", "/opt/gcc-arm/bin"}, ocd \in {"", "/opt/openocd/bin/openocd"} :
                        settings' = [toolchainPath |-> IF gcc # "" THEN gcc ELSE settings.toolchainPath,
                                     openocdPath   |-> IF ocd # "" THEN ocd ELSE settings.openocdPath]
                   /\ UNCHANGED toolchainPrompted
              [] choice \in {"never", "closed"} ->
                   /\ toolchainPrompted' = TRUE
                   /\ UNCHANGED settings
              [] OTHER -> UNCHANGED <<settings, toolchainPrompted>>
    /\ UNCHANGED codeVariant
    /\ UNCHANGED <<procVars, ocdVars, cmakeVars, cmdVars, launchVars, chipVars, utilVars>>

\* The user answers the question (auto-find, configure manually, do not
\* ask again) or closes it.  Auto-find runs the detection, and what it finds
\* is written to the user settings if the user agrees; 'do not ask again'
\* sets 'stm32.toolchainPrompted'.
Answer ==
    /\ session = "prompt"
    /\ session' = "ready"
    /\ \E choice \in {"autoFind", "manual", "never", "closed"} :
         /\ startup' = [startup EXCEPT !.answer = choice]
         /\ CASE choice = "autoFind" ->
                   /\ \E gcc \in {"", "/opt/gcc-arm/bin"}, ocd \in {"", "/opt/openocd/bin/openocd"} :
                        settings' = [toolchainPath |-> IF gcc # "" THEN gcc ELSE settings.toolchainPath,
                                     openocdPath   |-> IF ocd # "" THEN ocd ELSE settings.openocdPath]
                   /\ UNCHANGED toolchainPrompted
              [] choice = "never" ->
                   /\ toolchainPrompted' = TRUE
                   /\ UNCHANGED settings
              [] OTHER -> UNCHANGED <<settings, toolchainPrompted>>
    /\ UNCHANGED codeVariant
    /\ UNCHANGED <<procVars, ocdVars, cmakeVars, cmdVars, launchVars, chipVars, utilVars>>

\* The window is closed (or reloaded); the user may edit the settings
\* before the next start.
Shutdown ==
    /\ session # "inactive"
    /\ session' = "inactive"
    /\ settings' \in [toolchainPath : ToolchainPaths, openocdPath : OpenocdPaths]
    /\ UNCHANGED <<toolchainPrompted, codeVariant, startup>>
    /\ UNCHANGED <<procVars, ocdVars, cmakeVars, cmdVars, launchVars, chipVars, utilVars>>

\* Before the first start: any settings, the question never declined.
InitPrompt ==
    /\ InitProcesses
    /\ InitPlainEnv
    /\ CmdIdle
    /\ LaunchIdle
    /\ ChipIdle
    /\ UtilsIdle
    /\ settings \in [toolchainPath : ToolchainPaths, openocdPath : OpenocdPaths]
    /\ toolchainPrompted = FALSE
    /\ codeVariant \in CodeVariants
    /\ session = "inactive"
    /\ startup = NoStartup

NextPrompt == activate \/ Answer \/ Shutdown

SpecPrompt == InitPrompt /\ [][NextPrompt]_vars

\* ------------------------------------------------------------------------
\* Claims about the OpenOCD manager
\* ------------------------------------------------------------------------
OpenOCDKinds == {"server", "flash", "reset"}

LiveOpenOCD == {p \in Pids : proc[p].kind \in OpenOCDKinds /\ Alive(p)}

\* C1: at any time at most one openocd child process (server, flash or reset)
\* that was spawned has not yet exited.
C1_AtMostOneLiveOpenOCD == Cardinality(LiveOpenOCD) <= 1

\* C3: a start() whose server process is still alive (running, never killed)
\* when its 3 second timer has fired has settled its promise by then.
C3_StartSettledByTimeout ==
    \A p \in Pids :
        (proc[p].kind = "server" /\ proc[p].timer = "fired" /\ proc[p].life = "running")
            => proc[p].promise # "pending"

\* C4: right after stop() or deactivate() has run, every server process that
\* start() spawned and that is still alive has been sent kill.
C4_StopKillsEveryLiveServer ==
    justStopped => \A p \in Pids : proc[p].kind = "server" => proc[p].life # "running"

\* ------------------------------------------------------------------------
\* Claims about the CMake builder and the tool runs
\* ------------------------------------------------------------------------
LiveCMake == {p \in Pids : proc[p].kind = "cmake" /\ Alive(p)}

\* C2: at any time at most one cmake child process spawned by runCMake has
\* not yet closed.
C2_AtMostOneLiveCMake == Cardinality(LiveCMake) <= 1

ToolKinds == {"cmake", "objcopy", "flash", "reset"}

\* C6 as stated: a tool run that has closed is resolved exactly when the
\* exit code is 0, any other close has rejected it with a message that holds
\* the exit code, and after the close of a cmake run buildProcess is null.
C6_RejectionCarriesExitCode ==
    \A p \in Pids :
        (proc[p].kind \in ToolKinds /\ proc[p].life = "exited") =>
            /\ proc[p].promise = "resolved" <=> proc[p].code = "0"
            /\ proc[p].code # "0" => proc[p].promise = "rejected" /\ proc[p].reason = proc[p].code
            /\ proc[p].kind = "cmake" => buildProcess = 0

\* C6, amended: a tool run stays pending while its process is alive; once
\* closed it is resolved exactly when the exit code is 0; any other close
\* has rejected it with a message that holds the exit code, unless an
\* 'error' event (a spawn that failed) had rejected it before, and then it
\* keeps that error; after the close of a cmake run buildProcess is null.
C6_ToolRunOutcome ==
    \A p \in Pids :
        proc[p].kind \in ToolKinds =>
            /\ Alive(p) => proc[p].promise = "pending"
            /\ proc[p].life = "exited" =>
                 /\ proc[p].promise = "resolved" <=> proc[p].code = "0"
                 /\ proc[p].code # "0" =>
                      /\ proc[p].promise = "rejected"
                      /\ proc[p].reason \in {proc[p].code, "err"}
                      /\ proc[p].reason = "err" => proc[p].code = "-2"
                 /\ proc[p].kind = "cmake" => buildProcess = 0

\* A cmake run that cancelBuild() killed has closed with no exit code and is
\* rejected with the message that holds 'null'.
C6_CancelledBuildRejected ==
    \E p \in Pids :
        /\ proc[p].kind = "cmake"
        /\ proc[p].life = "exited"
        /\ proc[p].code = "null"
        /\ proc[p].promise = "rejected"
        /\ proc[p].reason = "null"
        /\ buildProcess = 0

BuildCommands == {"build", "clean", "rebuild"}

DelegateCommands == {"cmake.configure", "cmake.build", "cmake.clean"}

\* C7: with CMake Tools installed the operations of a build command run
\* the cmake.* commands that correspond to them, in order, and nothing else:
\* no cmake process exists, buildProcess is null and the build directory is
\* never deleted; without CMake Tools no cmake.* command is ever executed.
C7_DelegatesIffInstalled ==
    \A t \in Tasks :
        task[t].cmd \in BuildCommands =>
            IF cmakeToolsInstalled
            THEN /\ buildProcess = 0
                 /\ \A p \in Pids : proc[p].kind # "cmake"
                 /\ Len(task[t].log) <= Len(Ops(task[t].cmd))
                 /\ \A i \in 1..Len(task[t].log) :
                        task[t].log[i] = DelegateCommand(Ops(task[t].cmd)[i])
            ELSE /\ task[t].stage \notin DelegateCommands
                 /\ \A i \in 1..Len(task[t].log) : task[t].log[i] \notin DelegateCommands

\* stm32.rebuild has finished through CMake Tools.
C7_RebuildDelegated ==
    /\ cmakeToolsInstalled
    /\ \E t \in Tasks :
         /\ task[t].cmd = "rebuild"
         /\ task[t].out = "info"
         /\ task[t].log = <<"cmake.clean", "cmake.configure", "cmake.build">>

\* ------------------------------------------------------------------------
\* Claims about the command handlers
\* ------------------------------------------------------------------------
\* C5: no command handler ends with the failure of its operation escaping
\* as a rejected command, and a handler whose operation failed has shown an
\* error message box (so no success message).
C5_FailuresCaughtAndReported ==
    /\ handler.phase # "rejected"
    /\ handler.failed => handler.message = "error"

\* ------------------------------------------------------------------------
\* Claims about launch.json
\* ------------------------------------------------------------------------
\* The merge the claim describes: the first configuration of type
\* cortex-debug with servertype openocd replaced in place, else the new
\* one appended; every other configuration unchanged and in order.
MergedInto(cs) ==
    LET first == {i \in 1..Len(cs) :
                    /\ cs[i].type = "cortex-debug" /\ cs[i].servertype = "openocd"
                    /\ \A j \in 1..(i - 1) :
                          ~(cs[j].type = "cortex-debug" /\ cs[j].servertype = "openocd")}
    IN  IF first = {}
        THEN cs \o <<debugConfig>>
        ELSE [i \in 1..Len(cs) |-> IF i \in first THEN debugConfig ELSE cs[i]]

\* C8: whatever launch.json held, after generateLaunchJson() has written it
\* the file holds the configurations it held before, merged with the
\* generated one.
C8_MergeKeepsOtherConfigurations ==
    launchOutcome = "written" =>
        launchJson.configurations = MergedInto(launchBefore.configurations)

\* ------------------------------------------------------------------------
\* Claims about chip detection
\* ------------------------------------------------------------------------
\* C9: when detectChip() has returned in a workspace, the sources it
\* consulted are the first ones of .ioc, CMakeLists.txt, startup file,
\* linker script in that order; every one but the last yielded nothing; the
\* result is what the last one yielded, and is empty only after all four
\* yielded nothing; a matching Mcu.UserName decides the result whatever
\* Mcu.Name and the lower sources hold.
C9_FirstSourceWins ==
    (detect.pc = "done" /\ workspaceOpen) =>
        LET n == Len(detect.consulted)
        IN  /\ n \in 1..Len(Sources)
            /\ \A i \in 1..n : detect.consulted[i] = Sources[i]
            /\ \A i \in 1..(n - 1) : Detector(Sources[i], project) = ""
            /\ detect.chipName = Detector(Sources[n], project)
            /\ detect.chipName = "" => n = Len(Sources)
            /\ userNameMatch(project.userName) # "" =>
                  /\ n = 1
                  /\ detect.chipName = toUpperCase(userNameMatch(project.userName))

\* detectChip() has returned the Mcu.UserName of an .ioc file that also
\* holds Mcu.Name, in a project whose CMakeLists.txt, startup file and
\* linker script name a chip too.
C9_UserNameChosen ==
    /\ detect.pc = "done"
    /\ project.mcuName # ""
    /\ project.cmake # ""
    /\ project.startup # ""
    /\ project.linker = "STM32F103C8Tx_FLASH"
    /\ detect.chipName = "STM32F103C8TX"
    /\ detect.consulted = <<"ioc">>

\* ------------------------------------------------------------------------
\* Claims about activation
\* ------------------------------------------------------------------------
\* C10: an activation that found neither stm32.toolchainPath nor
\* stm32.openocdPath set by the user, and 'do not ask again' never chosen,
\* has asked
\* whether to look for the toolchain.
C10_AsksWhenUnconfigured ==
    (session # "inactive" /\ startup.unconfigured /\ ~startup.declined) => startup.asked

\* ------------------------------------------------------------------------
\* Claims about rebuild()
\* ------------------------------------------------------------------------
\* Which of the three steps of rebuild() a logged stage belongs to.
StepOf(stage) ==
    CASE stage \in {"clean", "delete", "cmake.clean"}           -> 1
      [] stage \in {"configure", "cmake.configure"}             -> 2
      [] stage \in {"build.configure", "compile", "cmake.build"} -> 3

\* The stages in log come clean first, configure second, build last, and
\* none of the steps was entered without the one before it.
StepsInOrder(log) ==
    /\ \A i, j \in 1..Len(log) : i < j => StepOf(log[i]) <= StepOf(log[j])
    /\ \A i \in 1..Len(log) :
         StepOf(log[i]) > 1 => \E j \in 1..Len(log) : j < i /\ StepOf(log[j]) = StepOf(log[i]) - 1

\* What one step of the program may do to the rebuild() call of task t.
RebuildStep(t) ==
    LET old == task[t]
        new == task'[t]
        awaited == proc[old.pid]
    IN  (new.cmd = "rebuild" /\ (old.cmd = "none" \/ new # old)) =>
            /\ StepsInOrder(new.log)
            /\ new.out = "info" =>
                   {StepOf(new.log[i]) : i \in 1..Len(new.log)} = {1, 2, 3}
            /\ old.pid # 0 =>
                   /\ awaited.promise # "pending"
                   /\ (awaited.promise = "rejected" /\ old.stage # "clean") =>
                          new.out = "error" /\ new.log = old.log
                   /\ new.log # old.log => awaited.life # "running"

UpperCaseLetters == <<"A", "B", "C", "D", "E", "F", "G", "H", "I", "J", "K", "L", "M", "N", "O", "P", "Q", "R", "S", "T", "U", "V", "W", "X", "Y", "Z">>

LowerCaseLetters == <<"a", "b", "c", "d", "e", "f", "g", "h", "i", "j", "k", "l", "m", "n", "o", "p", "q", "r", "s", "t", "u", "v", "w", "x", "y", "z">>

LetterIndex(letters, c) == CHOOSE i \in 1..Len(letters) : letters[i] = c

\* String.prototype.toLowerCase.
toLowerCase(s) ==
    [i \in 1..Len(s) |->
        IF \E k \in 1..Len(UpperCaseLetters) : UpperCaseLetters[k] = s[i]
        THEN LowerCaseLetters[LetterIndex(UpperCaseLetters, s[i])]
        ELSE s[i]]

\* String.prototype.toUpperCase, on sequences of characters.
upperCase(s) ==
    [i \in 1..Len(s) |->
        IF \E k \in 1..Len(LowerCaseLetters) : LowerCaseLetters[k] = s[i]
        THEN UpperCaseLetters[LetterIndex(LowerCaseLetters, s[i])]
        ELSE s[i]]

\* String.prototype.startsWith.
startsWith(s, prefix) ==
    Len(prefix) <= Len(s) /\ SubSeq(s, 1, Len(prefix)) = prefix

\* A chain of 'if (name.startsWith(prefix)) return result;' statements
\* followed by 'return fallback;'.
FirstMatch(rules, name, fallback) ==
    IF \E i \in 1..Len(rules) : startsWith(name, rules[i].prefix)
    THEN rules[CHOOSE i \in 1..Len(rules) :
                   /\ startsWith(name, rules[i].prefix)
                   /\ \A j \in 1..(i - 1) : ~startsWith(name, rules[j].prefix)].result
    ELSE fallback

\* The if-chain of getOpenOCDTarget.
OpenOCDTargetRules == <<
    [prefix |-> <<"s", "t", "m", "3", "2", "f", "0">>, result |-> "stm32f0x"],
    [prefix |-> <<"s", "t", "m", "3", "2", "f", "1">>, result |-> "stm32f1x"],
    [prefix |-> <<"s", "t", "m", "3", "2", "f", "2">>, result |-> "stm32f2x"],
    [prefix |-> <<"s", "t", "m", "3", "2", "f", "3">>, result |-> "stm32f3x"],
    [prefix |-> <<"s", "t", "m", "3", "2", "f", "4">>, result |-> "stm32f4x"],
    [prefix |-> <<"s", "t", "m", "3", "2", "f", "7">>, result |-> "stm32f7x"],
    [prefix |-> <<"s", "t", "m", "3", "2", "g", "0">>, result |-> "stm32g0x"],
    [prefix |-> <<"s", "t", "m", "3", "2", "g", "4">>, result |-> "stm32g4x"],
    [prefix |-> <<"s", "t", "m", "3", "2", "h", "7">>, result |-> "stm32h7x"],
    [prefix |-> <<"s", "t", "m", "3", "2", "l", "0">>, result |-> "stm32l0"],
    [prefix |-> <<"s", "t", "m", "3", "2", "l", "1">>, result |-> "stm32l1"],
    [prefix |-> <<"s", "t", "m", "3", "2", "l", "4">>, result |-> "stm32l4x"],
    [prefix |-> <<"s", "t", "m", "3", "2", "l", "5">>, result |-> "stm32l5x"],
    [prefix |-> <<"s", "t", "m", "3", "2", "u", "5">>, result |-> "stm32u5x"],
    [prefix |-> <<"s", "t", "m", "3", "2", "w", "b">>, result |-> "stm32wbx"],
    [prefix |-> <<"s", "t", "m", "3", "2", "w", "l">>, result |-> "stm32wlx"] >>

\* The if-chain of getChipFamily.
ChipFamilyRules == <<
    [prefix |-> <<"S", "T", "M", "3", "2", "F", "0">>, result |-> "STM32F0"],
    [prefix |-> <<"S", "T", "M", "3", "2", "F", "1">>, result |-> "STM32F1"],
    [prefix |-> <<"S", "T", "M", "3", "2", "F", "2">>, result |-> "STM32F2"],
    [prefix |-> <<"S", "T", "M", "3", "2", "F", "3">>, result |-> "STM32F3"],
    [prefix |-> <<"S", "T", "M", "3", "2", "F", "4">>, result |-> "STM32F4"],
    [prefix |-> <<"S", "T", "M", "3", "2", "F", "7">>, result |-> "STM32F7"],
    [prefix |-> <<"S", "T", "M", "3", "2", "G", "0">>, result |-> "STM32G0"],
    [prefix |-> <<"S", "T", "M", "3", "2", "G", "4">>, result |-> "STM32G4"],
    [prefix |-> <<"S", "T", "M", "3", "2", "H", "7">>, result |-> "STM32H7"],
    [prefix |-> <<"S", "T", "M", "3", "2", "L", "0">>, result |-> "STM32L0"],
    [prefix |-> <<"S", "T", "M", "3", "2", "L", "1">>, result |-> "STM32L1"],
    [prefix |-> <<"S", "T", "M", "3", "2", "L", "4">>, result |-> "STM32L4"],
    [prefix |-> <<"S", "T", "M", "3", "2", "L", "5">>, result |-> "STM32L5"],
    [prefix |-> <<"S", "T", "M", "3", "2", "U", "5">>, result |-> "STM32U5"],
    [prefix |-> <<"S", "T", "M", "3", "2", "W", "B">>, result |-> "STM32WB"],
    [prefix |-> <<"S", "T", "M", "3", "2", "W", "L">>, result |-> "STM32WL"] >>

\* getOpenOCDTarget comparing the name as it was typed.
getOpenOCDTarget_CaseSensitive(chipName) ==
    FirstMatch(OpenOCDTargetRules, chipName, "stm32f1x")

getOpenOCDTarget(chipName) ==
    FirstMatch(OpenOCDTargetRules, toLowerCase(chipName), "stm32f1x")

getChipFamily(chipName) ==
    FirstMatch(ChipFamilyRules, upperCase(chipName), "")

\* The chip database of the chip selector (name, family and OpenOCD target
\* of each entry).
STM32_CHIPS == <<
    [name |-> <<"S", "T", "M", "3", "2", "F", "0", "3", "0", "F", "4">>, family |-> "STM32F0", openocdTarget |-> "stm32f0x"],
    [name |-> <<"S", "T", "M", "3", "2", "F", "0", "3", "0", "C", "8">>, family |-> "STM32F0", openocdTarget |-> "stm32f0x"],
    [name |-> <<"S", "T", "M", "3", "2", "F", "0", "5", "1", "C", "8">>, family |-> "STM32F0", openocdTarget |-> "stm32f0x"],
    [name |-> <<"S", "T", "M", "3", "2", "F", "0", "7", "2", "R", "B">>, family |-> "STM32F0", openocdTarget |-> "stm32f0x"],
    [name |-> <<"S", "T", "M", "3", "2", "F", "1", "0", "3", "C", "6">>, family |-> "STM32F1", openocdTarget |-> "stm32f1x"],
    [name |-> <<"S", "T", "M", "3", "2", "F", "1", "0", "3", "C", "8">>, family |-> "STM32F1", openocdTarget |-> "stm32f1x"],
    [name |-> <<"S", "T", "M", "3", "2", "F", "1", "0", "3", "C", "B">>, family |-> "STM32F1", openocdTarget |-> "stm32f1x"],
    [name |-> <<"S", "T", "M", "3", "2", "F", "1", "0", "3", "R", "B">>, family |-> "STM32F1", openocdTarget |-> "stm32f1x"],
    [name |-> <<"S", "T", "M", "3", "2", "F", "1", "0", "3", "R", "C">>, family |-> "STM32F1", openocdTarget |-> "stm32f1x"],
    [name |-> <<"S", "T", "M", "3", "2", "F", "1", "0", "3", "R", "E">>, family |-> "STM32F1", openocdTarget |-> "stm32f1x"],
    [name |-> <<"S", "T", "M", "3", "2", "F", "1", "0", "3", "V", "E">>, family |-> "STM32F1", openocdTarget |-> "stm32f1x"],
    [name |-> <<"S", "T", "M", "3", "2", "F", "1", "0", "3", "Z", "E">>, family |-> "STM32F1", openocdTarget |-> "stm32f1x"],
    [name |-> <<"S", "T", "M", "3", "2", "F", "1", "0", "5", "R", "C">>, family |-> "STM32F1", openocdTarget |-> "stm32f1x"],
    [name |-> <<"S", "T", "M", "3", "2", "F", "1", "0", "7", "R", "C">>, family |-> "STM32F1", openocdTarget |-> "stm32f1x"],
    [name |-> <<"S", "T", "M", "3", "2", "F", "2", "0", "5", "R", "B">>, family |-> "STM32F2", openocdTarget |-> "stm32f2x"],
    [name |-> <<"S", "T", "M", "3", "2", "F", "2", "0", "5", "R", "E">>, family |-> "STM32F2", openocdTarget |-> "stm32f2x"],
    [name |-> <<"S", "T", "M", "3", "2", "F", "2", "0", "7", "V", "E">>, family |-> "STM32F2", openocdTarget |-> "stm32f2x"],
    [name |-> <<"S", "T", "M", "3", "2", "F", "3", "0", "1", "C", "8">>, family |-> "STM32F3", openocdTarget |-> "stm32f3x"],
    [name |-> <<"S", "T", "M", "3", "2", "F", "3", "0", "3", "C", "B">>, family |-> "STM32F3", openocdTarget |-> "stm32f3x"],
    [name |-> <<"S", "T", "M", "3", "2", "F", "3", "0", "3", "R", "E">>, family |-> "STM32F3", openocdTarget |-> "stm32f3x"],
    [name |-> <<"S", "T", "M", "3", "2", "F", "3", "0", "3", "V", "E">>, family |-> "STM32F3", openocdTarget |-> "stm32f3x"],
    [name |-> <<"S", "T", "M", "3", "2", "F", "4", "0", "1", "C", "B">>, family |-> "STM32F4", openocdTarget |-> "stm32f4x"],
    [name |-> <<"S", "T", "M", "3", "2", "F", "4", "0", "1", "C", "C">>, family |-> "STM32F4", openocdTarget |-> "stm32f4x"],
    [name |-> <<"S", "T", "M", "3", "2", "F", "4", "0", "1", "R", "E">>, family |-> "STM32F4", openocdTarget |-> "stm32f4x"],
    [name |-> <<"S", "T", "M", "3", "2", "F", "4", "0", "5", "R", "G">>, family |-> "STM32F4", openocdTarget |-> "stm32f4x"],
    [name |-> <<"S", "T", "M", "3", "2", "F", "4", "0", "7", "V", "E">>, family |-> "STM32F4", openocdTarget |-> "stm32f4x"],
    [name |-> <<"S", "T", "M", "3", "2", "F", "4", "0", "7", "V", "G">>, family |-> "STM32F4", openocdTarget |-> "stm32f4x"],
    [name |-> <<"S", "T", "M", "3", "2", "F", "4", "0", "7", "Z", "E">>, family |-> "STM32F4", openocdTarget |-> "stm32f4x"],
    [name |-> <<"S", "T", "M", "3", "2", "F", "4", "0", "7", "Z", "G">>, family |-> "STM32F4", openocdTarget |-> "stm32f4x"],
    [name |-> <<"S", "T", "M", "3", "2", "F", "4", "1", "1", "C", "E">>, family |-> "STM32F4", openocdTarget |-> "stm32f4x"],
    [name |-> <<"S", "T", "M", "3", "2", "F", "4", "1", "1", "R", "E">>, family |-> "STM32F4", openocdTarget |-> "stm32f4x"],
    [name |-> <<"S", "T", "M", "3", "2", "F", "4", "2", "9", "Z", "I">>, family |-> "STM32F4", openocdTarget |-> "stm32f4x"],
    [name |-> <<"S", "T", "M", "3", "2", "F", "4", "4", "6", "R", "E">>, family |-> "STM32F4", openocdTarget |-> "stm32f4x"],
    [name |-> <<"S", "T", "M", "3", "2", "F", "7", "2", "2", "R", "E">>, family |-> "STM32F7", openocdTarget |-> "stm32f7x"],
    [name |-> <<"S", "T", "M", "3", "2", "F", "7", "4", "6", "Z", "G">>, family |-> "STM32F7", openocdTarget |-> "stm32f7x"],
    [name |-> <<"S", "T", "M", "3", "2", "F", "7", "6", "7", "Z", "I">>, family |-> "STM32F7", openocdTarget |-> "stm32f7x"],
    [name |-> <<"S", "T", "M", "3", "2", "G", "0", "3", "0", "F", "6">>, family |-> "STM32G0", openocdTarget |-> "stm32g0x"],
    [name |-> <<"S", "T", "M", "3", "2", "G", "0", "3", "0", "K", "8">>, family |-> "STM32G0", openocdTarget |-> "stm32g0x"],
    [name |-> <<"S", "T", "M", "3", "2", "G", "0", "7", "1", "R", "B">>, family |-> "STM32G0", openocdTarget |-> "stm32g0x"],
    [name |-> <<"S", "T", "M", "3", "2", "G", "4", "3", "1", "K", "B">>, family |-> "STM32G4", openocdTarget |-> "stm32g4x"],
    [name |-> <<"S", "T", "M", "3", "2", "G", "4", "3", "1", "R", "B">>, family |-> "STM32G4", openocdTarget |-> "stm32g4x"],
    [name |-> <<"S", "T", "M", "3", "2", "G", "4", "7", "4", "R", "E">>, family |-> "STM32G4", openocdTarget |-> "stm32g4x"],
    [name |-> <<"S", "T", "M", "3", "2", "H", "7", "4", "3", "V", "I">>, family |-> "STM32H7", openocdTarget |-> "stm32h7x"],
    [name |-> <<"S", "T", "M", "3", "2", "H", "7", "4", "3", "Z", "I">>, family |-> "STM32H7", openocdTarget |-> "stm32h7x"],
    [name |-> <<"S", "T", "M", "3", "2", "H", "7", "5", "0", "V", "B">>, family |-> "STM32H7", openocdTarget |-> "stm32h7x"],
    [name |-> <<"S", "T", "M", "3", "2", "L", "0", "1", "1", "F", "4">>, family |-> "STM32L0", openocdTarget |-> "stm32l0"],
    [name |-> <<"S", "T", "M", "3", "2", "L", "0", "3", "1", "K", "6">>, family |-> "STM32L0", openocdTarget |-> "stm32l0"],
    [name |-> <<"S", "T", "M", "3", "2", "L", "0", "5", "3", "R", "8">>, family |-> "STM32L0", openocdTarget |-> "stm32l0"],
    [name |-> <<"S", "T", "M", "3", "2", "L", "1", "5", "1", "C", "8">>, family |-> "STM32L1", openocdTarget |-> "stm32l1"],
    [name |-> <<"S", "T", "M", "3", "2", "L", "1", "5", "2", "R", "E">>, family |-> "STM32L1", openocdTarget |-> "stm32l1"],
    [name |-> <<"S", "T", "M", "3", "2", "L", "4", "3", "1", "R", "C">>, family |-> "STM32L4", openocdTarget |-> "stm32l4x"],
    [name |-> <<"S", "T", "M", "3", "2", "L", "4", "3", "2", "K", "C">>, family |-> "STM32L4", openocdTarget |-> "stm32l4x"],
    [name |-> <<"S", "T", "M", "3", "2", "L", "4", "7", "6", "R", "G">>, family |-> "STM32L4", openocdTarget |-> "stm32l4x"],
    [name |-> <<"S", "T", "M", "3", "2", "L", "4", "9", "6", "Z", "G">>, family |-> "STM32L4", openocdTarget |-> "stm32l4x"],
    [name |-> <<"S", "T", "M", "3", "2", "L", "5", "5", "2", "Z", "E">>, family |-> "STM32L5", openocdTarget |-> "stm32l5x"],
    [name |-> <<"S", "T", "M", "3", "2", "U", "5", "7", "5", "Z", "I">>, family |-> "STM32U5", openocdTarget |-> "stm32u5x"],
    [name |-> <<"S", "T", "M", "3", "2", "W", "B", "5", "5", "R", "G">>, family |-> "STM32WB", openocdTarget |-> "stm32wbx"] >>

\* The fallback list used when the chip database file cannot be loaded.
getBuiltinChips == <<
    [name |-> <<"S", "T", "M", "3", "2", "F", "1", "0", "3", "C", "8">>, family |-> "STM32F1", openocdTarget |-> "stm32f1x"],
    [name |-> <<"S", "T", "M", "3", "2", "F", "1", "0", "3", "C", "B">>, family |-> "STM32F1", openocdTarget |-> "stm32f1x"],
    [name |-> <<"S", "T", "M", "3", "2", "F", "4", "0", "7", "V", "G">>, family |-> "STM32F4", openocdTarget |-> "stm32f4x"],
    [name |-> <<"S", "T", "M", "3", "2", "F", "4", "1", "1", "C", "E">>, family |-> "STM32F4", openocdTarget |-> "stm32f4x"],
    [name |-> <<"S", "T", "M", "3", "2", "H", "7", "4", "3", "Z", "I">>, family |-> "STM32H7", openocdTarget |-> "stm32h7x"] >>

ChipTables == {"STM32_CHIPS", "getBuiltinChips"}

ChipTable(name) == IF name = "STM32_CHIPS" THEN STM32_CHIPS ELSE getBuiltinChips

LookupEntry == ChipTable(lookup.table)[lookup.index]

UtilFrame == UNCHANGED <<procVars, ocdVars, cmakeVars, cmdVars, launchVars, chipVars, promptVars>>

TableFrame == UtilFrame /\ UNCHANGED notTableVars

\* An entry of one of the tables is taken.
SelectEntry ==
    /\ lookup.pc \in {"idle", "done"}
    /\ \E tb \in ChipTables : \E i \in 1..Len(ChipTable(tb)) :
         lookup' = [table |-> tb, index |-> i, pc |-> "entry", target |-> "", family |-> ""]
    /\ TableFrame

\* getOpenOCDTarget(entry.name)
CallGetOpenOCDTarget ==
    /\ lookup.pc = "entry"
    /\ lookup' = [lookup EXCEPT !.pc = "target", !.target = getOpenOCDTarget(LookupEntry.name)]
    /\ TableFrame

\* getChipFamily(entry.name)
CallGetChipFamily ==
    /\ lookup.pc = "target"
    /\ lookup' = [lookup EXCEPT !.pc = "done", !.family = getChipFamily(LookupEntry.name)]
    /\ TableFrame

InitTables == InitIdle /\ InitPlainEnv

NextTables == SelectEntry \/ CallGetOpenOCDTarget \/ CallGetChipFamily

SpecTables == InitTables /\ [][NextTables]_vars

\* C12: for every entry of STM32_CHIPS and of the built-in fallback list,
\* getOpenOCDTarget(entry.name) is the entry's openocdTarget and
\* getChipFamily(entry.name) is the entry's family.
C12_TablesAgreeWithFunctions ==
    /\ lookup.pc \in {"target", "done"} => lookup.target = LookupEntry.openocdTarget
    /\ lookup.pc = "done" => lookup.family = LookupEntry.family

\* Both functions have been applied to an STM32L0 entry of STM32_CHIPS, whose
\* target name has no trailing x.
C12_L0EntryLookedUp ==
    /\ lookup.pc = "done"
    /\ lookup.table = "STM32_CHIPS"
    /\ LookupEntry.family = "STM32L0"
    /\ lookup.target = "stm32l0"

\* ------------------------------------------------------------------------
\* Child processes run through exec / execSync with a timeout option
\* ------------------------------------------------------------------------
\* execSync(cmd, {timeout: 5000}) of the toolchain detector (findInPath and
\* the get...Version functions) and exec(cmd, {timeout: ...}, callback) of the
\* serial monitor (checkPythonSerial, checkCommand, port listing).
ExecKinds == {"execSync", "exec"}

\* execSync does not return, and no other callback runs, until its child has
\* gone.
NotBlocked == \A p \in Pids : ~(proc[p].kind = "execSync" /\ Alive(p))

\* The child of exec / execSync: run through a shell, with the timeout armed;
\* only exec has a callback, which resolves the promise around it.
ExecChild(kind) ==
    [Spawned(kind, TRUE) EXCEPT !.timer = "armed",
                                !.promise = IF kind = "exec" THEN "pending" ELSE "none"]

Exec(kind) ==
    /\ active
    /\ Quiescent
    /\ NotBlocked
    /\ HasFreePid
    /\ proc' = [proc EXCEPT ![FreePid] = ExecChild(kind)]
    /\ justStopped' = FALSE
    /\ UNCHANGED <<openocdProcess, timers, active, cmakeVars, featureVars>>

\* getGccVersion / getOpenOCDVersion / getCMakeVersion / getNinjaVersion.
getVersion == Exec("execSync")

\* checkCommand / checkPythonSerial.
checkCommand == Exec("exec")

\* The timeout option: when the child has run for longer than the timeout,
\* Node sends it killSignal (SIGTERM).
OnExecTimeout(p) ==
    /\ proc[p].kind \in ExecKinds
    /\ proc[p].life = "running"
    /\ proc[p].timer = "armed"
    /\ proc' = [proc EXCEPT ![p] = Kill([@ EXCEPT !.timer = "fired"])]
    /\ justStopped' = FALSE
    /\ UNCHANGED <<openocdProcess, timers, active, cmakeVars, featureVars>>

\* The child has gone: execSync returns or throws (the get...Version
\* functions catch and return 'unknown'), the callback of exec runs
\* resolve(!error).
OnExecClose(p) ==
    /\ proc[p].kind \in ExecKinds
    /\ Alive(p)
    /\ proc[p].kind = "exec" => NotBlocked
    /\ \E code \in CloseCodes(p) :
         proc' = [proc EXCEPT ![p] =
                     Resolve([@ EXCEPT !.life = "exited", !.code = code,
                                       !.timer = IF @ = "armed" THEN "cleared" ELSE @])]
    /\ justStopped' = FALSE
    /\ UNCHANGED <<openocdProcess, timers, active, cmakeVars, featureVars>>

\* The OpenOCD server with its 3 second timer, next to the tool probes.
NextTimers ==
    \/ NotBlocked /\ start
    \/ NotBlocked /\ stop
    \/ \E p \in Pids : NotBlocked /\ OnListening(p)
    \/ \E p \in Pids : NotBlocked /\ OnServerClose(p)
    \/ \E p \in Pids : NotBlocked /\ OnServerError(p)
    \/ \E p \in Pids : NotBlocked /\ OnTimeout(p)
    \/ getVersion
    \/ checkCommand
    \/ \E p \in Pids : OnExecTimeout(p)
    \/ \E p \in Pids : OnExecClose(p)
    \/ \E p \in Pids : NotBlocked /\ Reap(p)

SpecTimers == InitOCD /\ [][NextTimers]_vars

\* The processes that go from running to killed in this step.
KilledNow == {p \in Pids : proc[p].life = "running" /\ proc'[p].life = "killed"}

\* C13: a step in which a timer expires kills no child process, and a child
\* process is killed only through the handle of one of the managers (stop(),
\* deactivate(), cancelBuild()).
C13_NoKillByTimer ==
    [][/\ (\E p \in Pids : proc[p].timer = "armed" /\ proc'[p].timer = "fired")
            => KilledNow = {}
       /\ KilledNow \subseteq {openocdProcess, buildProcess}]_vars

\* ------------------------------------------------------------------------
\* OpenOCDManager.flash(): which firmware file it takes
\* ------------------------------------------------------------------------
\* findFiles(pattern, null, 10) for each pattern of build/<buildType>.
MaxResults == 10

\* findFiles(pattern, null, 20) for each pattern of build/**.
MaxFallbackResults == 20

\* Times the user chooses to build within one flash() call.
MaxBuilds == 2

Min(a, b) == IF a <= b THEN a ELSE b

\* The firmware files a workspace can hold when flash() is called.
\* projectElf: build/<buildType>/<workspace folder name>.elf exists;
\* otherElf, hex, bin: the other files directly in build/<buildType>;
\* matching, other: files elsewhere under build/ whose path does / does not
\* contain the build type (build/debug-old/a.elf, build/Release/a.elf).
Firmwares ==
    [projectElf : BOOLEAN, otherElf : {0, 1, MaxResults}, hex : {0, 1}, bin : {0, 1},
     matching : {0, 1, 2}, other : {0, 1}]

\* The user's stm32.elfFile.
ElfFileSettings == {"", "out/app.elf"}

\* Whether the result of findFiles('build/<buildType>/*.elf', null, 10) holds
\* the project's ELF file: with more .elf files than the limit, which of
\* them are returned is not specified.
ProjectListed(fw) ==
    IF ~fw.projectElf THEN {FALSE}
    ELSE IF fw.otherElf + 1 > MaxResults THEN BOOLEAN
    ELSE {TRUE}

\* priorityFiles.length
PriorityCount(fw) ==
    Min(fw.otherElf + (IF fw.projectElf THEN 1 ELSE 0), MaxResults)
        + Min(fw.hex, MaxResults) + Min(fw.bin, MaxResults)

\* allFiles.length, when build/<buildType> holds no file.
FallbackCount(fw) == Min(fw.matching + fw.other, MaxFallbackResults)

\* selectFlashFile() when nothing is found: undefined, and no question.
selectFlashFile_NoRemedy(fw, projectListed) ==
    IF ~workspaceOpen THEN [next |-> "undefined", file |-> "none", listed |-> "none"]
    ELSE IF PriorityCount(fw) > 0
    THEN IF projectListed THEN [next |-> "return", file |-> "projectElf", listed |-> "none"]
         ELSE IF PriorityCount(fw) = 1
              THEN [next |-> "return", file |-> "soleInBuildType", listed |-> "none"]
              ELSE [next |-> "quickPick", file |-> "none", listed |-> "buildTypeDir"]
    ELSE IF FallbackCount(fw) = 0
    THEN [next |-> "undefined", file |-> "none", listed |-> "none"]
    ELSE IF fw.matching = 1
    THEN [next |-> "return", file |-> "soleMatching", listed |-> "none"]
    ELSE IF fw.matching > 1
    THEN [next |-> "quickPick", file |-> "none", listed |-> "matching"]
    ELSE IF FallbackCount(fw) = 1
    THEN [next |-> "return", file |-> "soleElsewhere", listed |-> "none"]
    ELSE [next |-> "quickPick", file |-> "none", listed |-> "all"]

\* selectFlashFile() up to its first question to the user, or its return.
selectFlashFile(fw, projectListed) ==
    IF ~workspaceOpen THEN [next |-> "undefined", file |-> "none", listed |-> "none"]
    ELSE IF PriorityCount(fw) > 0
    THEN IF projectListed THEN [next |-> "return", file |-> "projectElf", listed |-> "none"]
         ELSE IF PriorityCount(fw) = 1
              THEN [next |-> "return", file |-> "soleInBuildType", listed |-> "none"]
              ELSE [next |-> "quickPick", file |-> "none", listed |-> "buildTypeDir"]
    ELSE IF FallbackCount(fw) = 0
    THEN [next |-> "warning", file |-> "none", listed |-> "none"]
    ELSE IF fw.matching = 1
    THEN [next |-> "return", file |-> "soleMatching", listed |-> "none"]
    ELSE IF fw.matching > 1
    THEN [next |-> "quickPick", file |-> "none", listed |-> "matching"]
    ELSE IF FallbackCount(fw) = 1
    THEN [next |-> "return", file |-> "soleElsewhere", listed |-> "none"]
    ELSE [next |-> "quickPick", file |-> "none", listed |-> "all"]

FlashFrame ==
    /\ justStopped' = FALSE
    /\ UNCHANGED <<timers, openocdProcess, active, cmakeVars, cmdVars, launchVars,
                   chipVars, promptVars, notFlashVars, stm32ElfFile>>

\* flash() with its file: the arguments are built and openocd is spawned.
SpawnFlash(call, file) ==
    /\ HasFreePid
    /\ \E ok \in BOOLEAN : proc' = [proc EXCEPT ![FreePid] = Spawned("flash", ok)]
    /\ flashSel' = [call EXCEPT !.pc = "spawned", !.file = file, !.spawns = @ + 1]

\* flash() without a file: throws 'no file to flash found, build first'.
ThrowNoFile(call) ==
    /\ flashSel' = [call EXCEPT !.pc = "rejected"]
    /\ UNCHANGED proc

\* flash() goes on with what selectFlashFile() came to.
AfterSearch(call, fw) ==
    \E listed \in ProjectListed(fw) :
        LET r == selectFlashFile(fw, listed)
            searched == [call EXCEPT !.searches = @ + 1]
        IN  CASE r.next = "return"    -> SpawnFlash(searched, r.file)
              [] r.next = "undefined" -> ThrowNoFile(searched)
              [] r.next = "quickPick" ->
                     /\ flashSel' = [searched EXCEPT !.pc = "quickPick", !.listed = r.listed]
                     /\ UNCHANGED proc
              [] r.next = "warning"   ->
                     /\ flashSel' = [searched EXCEPT !.pc = "warning", !.warned = @ + 1]
                     /\ UNCHANGED proc

\* The user runs stm32.flash: flash() is called.
flashCall ==
    /\ active
    /\ Quiescent
    /\ flashSel.pc \in {"idle", "spawned", "rejected"}
    /\ IF stm32ElfFile # ""
       THEN SpawnFlash(NoFlashCall, "configured")
       ELSE AfterSearch(NoFlashCall, firmware)
    /\ UNCHANGED firmware
    /\ FlashFrame

\* The user answers the warning with 'build project':
\* executeCommand('stm32.build') is awaited.
ChooseBuild ==
    /\ flashSel.pc = "warning"
    /\ flashSel.builds < MaxBuilds
    /\ flashSel' = [flashSel EXCEPT !.pc = "building", !.builds = @ + 1]
    /\ UNCHANGED <<proc, firmware>>
    /\ FlashFrame

\* What a run of stm32.build can leave under build/: nothing new (it failed;
\* the handler of stm32.build catches the failure), the project's ELF file in
\* build/<buildType> (preset project), or in the build directory itself.
BuildResults(fw) ==
    {fw, [fw EXCEPT !.projectElf = TRUE], [fw EXCEPT !.other = Min(@ + 1, 2)]}

\* stm32.build has returned: 'return this.selectFlashFile()'.
BuildReturns ==
    /\ flashSel.pc = "building"
    /\ Quiescent
    /\ \E fw \in BuildResults(firmware) :
         /\ firmware' = fw
         /\ AfterSearch(flashSel, fw)
    /\ FlashFrame

\* The user answers the warning with 'select file manually'.
ChooseManual ==
    /\ flashSel.pc = "warning"
    /\ flashSel' = [flashSel EXCEPT !.pc = "openDialog"]
    /\ UNCHANGED <<proc, firmware>>
    /\ FlashFrame

\* The user closes the warning without a choice.
DismissWarning ==
    /\ flashSel.pc = "warning"
    /\ ThrowNoFile([flashSel EXCEPT !.dismissed = TRUE])
    /\ UNCHANGED firmware
    /\ FlashFrame

\* showOpenDialog: a file is picked, or the dialog is cancelled.
OpenDialogCloses ==
    /\ flashSel.pc = "openDialog"
    /\ Quiescent
    /\ \E picked \in BOOLEAN :
         IF picked THEN SpawnFlash(flashSel, "manual") ELSE ThrowNoFile(flashSel)
    /\ UNCHANGED firmware
    /\ FlashFrame

\* promptSelectFlashFile: an item is picked, or the quick pick is closed.
QuickPickCloses ==
    /\ flashSel.pc = "quickPick"
    /\ Quiescent
    /\ \E picked \in BOOLEAN :
         IF picked THEN SpawnFlash(flashSel, "picked") ELSE ThrowNoFile(flashSel)
    /\ UNCHANGED firmware
    /\ FlashFrame

InitFlashFile ==
    /\ InitProcesses
    /\ cmakeToolsInstalled = FALSE
    /\ workspaceOpen \in BOOLEAN
    /\ hasPresets = FALSE
    /\ cmakeCache = FALSE
    /\ CmdIdle
    /\ LaunchIdle
    /\ ChipIdle
    /\ PromptIdle
    /\ lookup = NoLookup
    /\ debugCfg = NoDebugCfg
    /\ buildTypeSync = NoSync
    /\ ScanIdle
    /\ FlowsIdle
    /\ firmware \in Firmwares
    /\ stm32ElfFile \in ElfFileSettings
    /\ flashSel = NoFlashCall

NextFlashFile ==
    \/ flashCall
    \/ ChooseBuild
    \/ BuildReturns
    \/ ChooseManual
    \/ DismissWarning
    \/ OpenDialogCloses
    \/ QuickPickCloses
    \/ \E p \in Pids : OnOneShotClose(p)
    \/ \E p \in Pids : OnOneShotError(p)
    \/ \E p \in Pids : Reap(p)

SpecFlashFile == InitFlashFile /\ [][NextFlashFile]_vars

\* ------------------------------------------------------------------------
\* Claims about flash() without a firmware file
\* ------------------------------------------------------------------------
\* flash() has been called with no stm32.elfFile configured and there is no
\* .elf/.hex/.bin file under build/.
NothingToFlash ==
    /\ stm32ElfFile = ""
    /\ firmware = NoFirmware
    /\ flashSel.pc # "idle"

\* What the claim says of such a call: every search ended in the question
\* 'build project' / 'select file manually'; a search is repeated once for
\* each time the user chose to build, after stm32.build has returned; openocd
\* is spawned only with a manually picked file; and after the user dismissed
\* the question the call is rejected and has spawned nothing.
RemedyContract ==
    /\ NothingToFlash =>
         /\ flashSel.searches >= 1
         /\ flashSel.warned = flashSel.searches
         /\ flashSel.searches = flashSel.builds + (IF flashSel.pc = "building" THEN 0 ELSE 1)
         /\ flashSel.pc = "spawned" => flashSel.file = "manual"
         /\ flashSel.pc = "rejected" => flashSel.spawns = 0
    /\ flashSel.dismissed => flashSel.pc = "rejected" /\ flashSel.spawns = 0

\* C16 as stated: whenever flash() finds no configured file and no firmware
\* file under build/, the user is offered the two remedies; building searches
\* again, manual selection uses the picked file, dismissing rejects without
\* spawning openocd.
C16_RemedyOffered == RemedyContract

\* C16, amended: the same, for a call made with a workspace folder open
\* (without one flash() rejects at once and asks nothing).
C16_RemedyOfferedInWorkspace == workspaceOpen => RemedyContract

\* The user chose to build, nothing was produced, and the user then
\* dismissed the question that came again.
C16_DismissedAfterBuild ==
    /\ workspaceOpen
    /\ NothingToFlash
    /\ flashSel.dismissed
    /\ flashSel.builds >= 1
    /\ flashSel.pc = "rejected"

\* ------------------------------------------------------------------------
\* Claims about the choice of the firmware file
\* ------------------------------------------------------------------------
\* The number of .elf/.hex/.bin files directly in build/<buildType>.
InBuildTypeDir(fw) == fw.otherElf + fw.hex + fw.bin + (IF fw.projectElf THEN 1 ELSE 0)

\* The call has put a question to the user.
Prompted == flashSel.listed # "none" \/ flashSel.warned >= 1

\* C20: a configured stm32.elfFile is used without search or prompt; else the
\* project's ELF file in build/<buildType> is used without a prompt whatever
\* else is there; else a sole file in build/<buildType> is used without a
\* prompt; else the user is prompted, and files outside build/<buildType> come
\* into play only when build/<buildType> holds no firmware file.  (Stated for
\* a call in an open workspace during which no build has changed the files.)
C20_FixedPriority ==
    (flashSel.pc # "idle" /\ flashSel.builds = 0 /\ workspaceOpen) =>
        IF stm32ElfFile # ""
        THEN flashSel.file = "configured" /\ flashSel.searches = 0 /\ ~Prompted
        ELSE IF firmware.projectElf
        THEN flashSel.file = "projectElf" /\ ~Prompted
        ELSE IF InBuildTypeDir(firmware) = 1
        THEN flashSel.file = "soleInBuildType" /\ ~Prompted
        ELSE /\ Prompted
             /\ (flashSel.listed \in {"matching", "all"}
                   \/ flashSel.file \in {"soleMatching", "soleElsewhere"})
                    => InBuildTypeDir(firmware) = 0

\* ------------------------------------------------------------------------
\* DebugConfigGenerator.getOrCreateDebugConfig(): the search for the ELF file
\* ------------------------------------------------------------------------
\* findFiles(<priority dir>/*.elf, null, 5)
MaxElfResults == 5

\* findFiles(<fallback dir>/**/*.elf, null, 10)
MaxElfFallbackResults == 10

\* findElfFile(): a sole ELF file of build/<buildType> is taken, several are
\* put to the user; with none there, a sole ELF file elsewhere under the
\* build directory, or the first whose path contains the build type, is
\* taken, several others are put to the user.
findElfFile(fw) ==
    LET top == Min(fw.otherElf + (IF fw.projectElf THEN 1 ELSE 0), MaxElfResults)
        all == Min(fw.matching + fw.other, MaxElfFallbackResults)
    IN  IF ~workspaceOpen THEN "none"
        ELSE IF top = 1 THEN "found"
        ELSE IF top > 1 THEN "quickPick"
        ELSE IF all = 0 THEN "none"
        ELSE IF all = 1 \/ fw.matching > 0 THEN "found"
        ELSE "quickPick"

\* getOrCreateDebugConfig() from its start, or from its call of itself after
\* a build: up to the next question to the user, or the return.
SearchElf(call, fw) ==
    LET found == findElfFile(fw)
        searched == [call EXCEPT !.searches = @ + 1]
    IN  debugCfg' =
            IF ~workspaceOpen THEN [call EXCEPT !.pc = "returned"]
            ELSE CASE found = "found"     -> [searched EXCEPT !.pc = "returned"]
                   [] found = "quickPick" -> [searched EXCEPT !.pc = "quickPick"]
                   [] found = "none"      -> [searched EXCEPT !.pc = "errorPrompt"]

getOrCreateDebugConfig ==
    /\ active
    /\ debugCfg.pc \in {"idle", "returned"}
    /\ SearchElf(NoDebugCfg, firmware)
    /\ UNCHANGED <<firmware, notDebugCfgVars>>
    /\ UtilFrame

\* The user answers 'ELF file not found' with 'build project':
\* executeCommand('stm32.build') is awaited.
DebugChooseBuild ==
    /\ debugCfg.pc = "errorPrompt"
    /\ debugCfg.builds < MaxBuilds
    /\ debugCfg' = [debugCfg EXCEPT !.pc = "building", !.builds = @ + 1]
    /\ UNCHANGED <<firmware, notDebugCfgVars>>
    /\ UtilFrame

\* stm32.build has returned: 'return this.getOrCreateDebugConfig()'.
DebugBuildReturns ==
    /\ debugCfg.pc = "building"
    /\ \E fw \in BuildResults(firmware) :
         /\ firmware' = fw
         /\ SearchElf(debugCfg, fw)
    /\ UNCHANGED notDebugCfgVars
    /\ UtilFrame

\* The user closes the error message without a choice: undefined is returned.
DebugDismiss ==
    /\ debugCfg.pc = "errorPrompt"
    /\ debugCfg' = [debugCfg EXCEPT !.pc = "returned", !.dismissed = TRUE]
    /\ UNCHANGED <<firmware, notDebugCfgVars>>
    /\ UtilFrame

\* promptSelectElfFile: an item is picked or the quick pick is closed.
DebugQuickPickCloses ==
    /\ debugCfg.pc = "quickPick"
    /\ debugCfg' = [debugCfg EXCEPT !.pc = "returned"]
    /\ UNCHANGED <<firmware, notDebugCfgVars>>
    /\ UtilFrame

\* ------------------------------------------------------------------------
\* selectBuildType() and the synchronisation with CMake Tools
\* ------------------------------------------------------------------------
\* const syncAttempts = [500, 1500, 3000]
syncAttempts == <<500, 1500, 3000>>

BuildTypes == {"Debug", "Release"}

\* The user runs stm32.selectBuildType.  With CMakePresets.json the choice is
\* left to cmake.selectConfigurePreset and a timer is armed for each entry of
\* syncAttempts; without it, or when that command throws, the user chooses
\* from the extension's own list.
selectBuildType ==
    /\ active
    /\ buildTypeSync.timers = <<>>
    /\ \E presetChosen \in BOOLEAN :
         IF workspaceOpen /\ hasPresets /\ presetChosen
         THEN buildTypeSync' = [buildTypeSync EXCEPT !.timers = syncAttempts, !.runs = 0]
         ELSE \E selected \in BuildTypes \cup {"none"} :
                buildTypeSync' =
                    [buildTypeSync EXCEPT !.runs = 0,
                                          !.buildType = IF selected = "none" THEN @ ELSE selected]
    /\ UNCHANGED notSyncVars
    /\ UtilFrame

\* CMake Tools configures a preset: its build/<type> directory is the one
\* written last.
CMakeToolsConfigures ==
    /\ workspaceOpen /\ hasPresets
    /\ \E dir \in BuildTypes :
         /\ dir # buildTypeSync.latestDir
         /\ buildTypeSync' = [buildTypeSync EXCEPT !.latestDir = dir]
    /\ UNCHANGED notSyncVars
    /\ UtilFrame

\* A timer of selectBuildType() fires: syncBuildTypeFromCMakeTools() sets
\* stm32.buildType to the build/<type> directory written last.
OnSyncTimer ==
    /\ buildTypeSync.timers # <<>>
    /\ buildTypeSync' =
           [buildTypeSync EXCEPT !.timers = Tail(@), !.runs = @ + 1,
                                 !.buildType = IF buildTypeSync.latestDir = "none"
                                               THEN @ ELSE buildTypeSync.latestDir]
    /\ UNCHANGED notSyncVars
    /\ UtilFrame

\* ------------------------------------------------------------------------
\* The operations that can run again: file searches, builds, synchronisation
\* ------------------------------------------------------------------------
InitRetry ==
    /\ InitProcesses
    /\ cmakeToolsInstalled = TRUE
    /\ workspaceOpen = TRUE
    /\ hasPresets \in BOOLEAN
    /\ cmakeCache = FALSE
    /\ CmdIdle
    /\ LaunchIdle
    /\ ChipIdle
    /\ PromptIdle
    /\ lookup = NoLookup
    /\ debugCfg = NoDebugCfg
    /\ buildTypeSync = NoSync
    /\ ScanIdle
    /\ FlowsIdle
    /\ firmware \in {NoFirmware, [NoFirmware EXCEPT !.other = 2]}
    /\ stm32ElfFile = ""
    /\ flashSel = NoFlashCall

NextRetry ==
    \/ NextFlashFile
    \/ getOrCreateDebugConfig
    \/ DebugChooseBuild
    \/ DebugBuildReturns
    \/ DebugDismiss
    \/ DebugQuickPickCloses
    \/ selectBuildType
    \/ CMakeToolsConfigures
    \/ OnSyncTimer

SpecRetry == InitRetry /\ [][NextRetry]_vars

\* C14: nothing is run again by itself.  A flash() or getOrCreateDebugConfig()
\* call searches once, and once more for each time the user chose to build;
\* after the user dismissed the prompt the call has ended; and the build-type
\* synchronisation runs at most once for one stm32.selectBuildType command.
C14_NoAutomaticRetry ==
    /\ flashSel.searches <= flashSel.builds + 1
    /\ flashSel.dismissed => flashSel.pc = "rejected"
    /\ debugCfg.searches <= debugCfg.builds + 1
    /\ debugCfg.dismissed => debugCfg.pc = "returned"
    /\ buildTypeSync.runs <= 1

\* ------------------------------------------------------------------------
\* Reading the stm32.* configuration
\* ------------------------------------------------------------------------
\* The frame of a step that only reads the configuration or scans for tools.
ScanFrame == UtilFrame /\ UNCHANGED notScanVars

\* The settings table of the README: every stm32.* key and its default.
DocumentedDefaults ==
    [toolchainPath |-> "", openocdPath |-> "openocd", openocdScriptsPath |-> "",
     cmakePath |-> "cmake", selectedChip |-> "", debugInterface |-> "stlink",
     buildType |-> "Debug", buildDirectory |-> "build", elfFile |-> "",
     svdFile |-> ""]

\* getSTM32Config(): config.get(key) || fallback, for each key it returns.
getSTM32ConfigFallbacks ==
    [toolchainPath |-> "", openocdPath |-> "openocd", openocdScriptsPath |-> "",
     cmakePath |-> "cmake", selectedChip |-> "", debugInterface |-> "stlink",
     buildType |-> "Debug", buildDirectory |-> "build", elfFile |-> "",
     svdFile |-> ""]

\* CMakeBuilder.getConfig()
CMakeBuilderFallbacks ==
    [cmakePath |-> "cmake", toolchainPath |-> "", buildType |-> "Debug",
     buildDirectory |-> "build"]

\* OpenOCDManager.getConfig()
OpenOCDManagerFallbacks ==
    [openocdPath |-> "openocd", openocdScriptsPath |-> "", debugInterface |-> "stlink",
     selectedChip |-> "", elfFile |-> "", buildType |-> "Debug"]

\* DebugConfigGenerator.getConfig()
DebugConfigGeneratorFallbacks ==
    [selectedChip |-> "STM32F103C8", debugInterface |-> "stlink",
     buildDirectory |-> "build", buildType |-> "Debug", toolchainPath |-> "",
     openocdPath |-> "openocd", svdFile |-> ""]

Fallbacks ==
    [getSTM32Config |-> getSTM32ConfigFallbacks,
     CMakeBuilder |-> CMakeBuilderFallbacks,
     OpenOCDManager |-> OpenOCDManagerFallbacks,
     DebugConfigGenerator |-> DebugConfigGeneratorFallbacks]

Components == DOMAIN Fallbacks

\* What the user's settings hold for a key: nothing, the empty string or a
\* value of their own.
RawValues == {"unset", "", "custom"}

\* What config.get(key) gives for a key the user did not set: the default the
\* extension contributes for it, or undefined where it contributes none.
UnsetGets(key) == {"undefined", DocumentedDefaults[key]}

\* a || b of JavaScript, on strings and undefined.
Or(a, b) == IF a \in {"undefined", ""} THEN b ELSE a

\* config.get<string>(key) in the getConfig() of a component.
ConfigGetKey ==
    /\ reading.pc \in {"idle", "done"}
    /\ \E c \in Components : \E key \in DOMAIN Fallbacks[c] : \E raw \in RawValues :
         \E got \in (IF raw = "unset" THEN UnsetGets(key) ELSE {raw}) :
           reading' = [component |-> c, key |-> key, raw |-> raw, pc |-> "got",
                       got |-> got, value |-> ""]
    /\ UNCHANGED detection
    /\ ScanFrame

\* ... || fallback: the value the component goes on with.
ApplyFallback ==
    /\ reading.pc = "got"
    /\ reading' = [reading EXCEPT
                     !.pc = "done",
                     !.value = Or(reading.got, Fallbacks[reading.component][reading.key])]
    /\ UNCHANGED detection
    /\ ScanFrame

InitConfig == InitIdle /\ InitPlainEnv

NextConfig == ConfigGetKey \/ ApplyFallback

SpecConfig == InitConfig /\ [][NextConfig]_vars

\* C15: whichever component reads a stm32.* key the user has not set, it goes
\* on with the default the settings table documents for that key.
C15_SameDocumentedDefaults ==
    (reading.pc = "done" /\ reading.raw = "unset")
        => reading.value = DocumentedDefaults[reading.key]

\* ------------------------------------------------------------------------
\* ToolchainDetector: looking for the tools on the machine
\* ------------------------------------------------------------------------
\* The directories findDirectories() returns under the common install
\* locations of a tool, in the order it returns them.
MaxDirs == 2

\* The candidate files of all tools that exist on the machine.
MaxInstalled == 3

gccNames == <<"arm-none-eabi-gcc", "arm-none-eabi-gcc.exe">>

openocdNames == <<"openocd", "openocd.exe">>

cmakeNames == <<"cmake", "cmake.exe">>

ninjaNames == <<"ninja", "ninja.exe">>

\* detectCMake(): the fixed paths it looks at after PATH.
CMakeCommonPaths ==
    <<"C:/Program Files/CMake/bin/cmake.exe", "C:/Program Files (x86)/CMake/bin/cmake.exe",
      "/usr/bin/cmake", "/usr/local/bin/cmake", "/opt/homebrew/bin/cmake">>

\* A file name in a directory of PATH, what where/which prints for the name,
\* and a file in the d-th directory of the common locations.
InPath(name) == [via |-> "PATH", name |-> name, dir |-> 0]

ByWhich(name) == [via |-> "which", name |-> name, dir |-> 0]

InCommon(name, d) == [via |-> "common", name |-> name, dir |-> d]

\* findInPath(name): the directories of PATH, then the where/which command.
findInPath(name, installed) ==
    IF InPath(name) \in installed THEN InPath(name)
    ELSE IF ByWhich(name) \in installed THEN ByWhich(name)
    ELSE Null

\* for (const name of names) { const result = this.findInPath(name); ... }
FindNames(names, installed) ==
    IF findInPath(names[1], installed) # Null THEN findInPath(names[1], installed)
    ELSE findInPath(names[2], installed)

\* for (const dir of dirs): <dir>/bin/<exe> is looked at before <dir>/bin/<unix>.
RECURSIVE FindInDirs(_, _, _, _)
FindInDirs(d, exe, unix, installed) ==
    IF d > MaxDirs THEN Null
    ELSE IF InCommon(exe, d) \in installed THEN InCommon(exe, d)
    ELSE IF InCommon(unix, d) \in installed THEN InCommon(unix, d)
    ELSE FindInDirs(d + 1, exe, unix, installed)

\* for (const cmakePath of commonPaths) if (fs.existsSync(cmakePath)) return
RECURSIVE FindInPaths(_, _, _)
FindInPaths(i, paths, installed) ==
    IF i > Len(paths) THEN Null
    ELSE IF InCommon(paths[i], i) \in installed THEN InCommon(paths[i], i)
    ELSE FindInPaths(i + 1, paths, installed)

detectGccArm(installed) ==
    IF FindNames(gccNames, installed) # Null THEN FindNames(gccNames, installed)
    ELSE FindInDirs(1, "arm-none-eabi-gcc.exe", "arm-none-eabi-gcc", installed)

detectOpenOCD(installed) ==
    IF FindNames(openocdNames, installed) # Null THEN FindNames(openocdNames, installed)
    ELSE FindInDirs(1, "openocd.exe", "openocd", installed)

detectCMake_CommonFirst(installed) ==
    IF FindInPaths(1, CMakeCommonPaths, installed) # Null
    THEN FindInPaths(1, CMakeCommonPaths, installed)
    ELSE FindNames(cmakeNames, installed)

detectCMake(installed) ==
    IF FindNames(cmakeNames, installed) # Null THEN FindNames(cmakeNames, installed)
    ELSE FindInPaths(1, CMakeCommonPaths, installed)

detectNinja(installed) ==
    IF FindNames(ninjaNames, installed) # Null THEN FindNames(ninjaNames, installed)
    ELSE FindInDirs(1, "ninja.exe", "ninja", installed)

\* The detectors, by the name detectAll() keeps their result under.
Detectors == {"gcc", "openocd", "cmake", "ninja"}

\* The fields of DetectedTools detectAll() assigns from a detector's result.
ToolFields ==
    [gcc |-> {"gccPath", "gccVersion"},
     openocd |-> {"openocdPath", "openocdScriptsPath", "openocdVersion"},
     cmake |-> {"cmakePath"},
     ninja |-> {"ninjaPath"}]

\* if (result) { tools.<field> = result.path; ... }
Assign(tools, tool, result) ==
    IF result # Null THEN tools \cup ToolFields[tool] ELSE tools

\* Everything a detector looks at, PATH first.
PathCandidates(names) ==
    <<InPath(names[1]), ByWhich(names[1]), InPath(names[2]), ByWhich(names[2])>>

DirCandidates(exe, unix) ==
    [i \in 1..(2 * MaxDirs) |->
        InCommon(IF i % 2 = 1 THEN exe ELSE unix, (i + 1) \div 2)]

Candidates ==
    [gcc |-> PathCandidates(gccNames)
               \o DirCandidates("arm-none-eabi-gcc.exe", "arm-none-eabi-gcc"),
     openocd |-> PathCandidates(openocdNames) \o DirCandidates("openocd.exe", "openocd"),
     cmake |-> PathCandidates(cmakeNames)
                 \o [i \in 1..Len(CMakeCommonPaths) |-> InCommon(CMakeCommonPaths[i], i)],
     ninja |-> PathCandidates(ninjaNames) \o DirCandidates("ninja.exe", "ninja")]

AllCandidates ==
    UNION {{Candidates[t][i] : i \in 1..Len(Candidates[t])} : t \in Detectors}

\* The sets of at most n candidates.
RECURSIVE Installations(_)
Installations(n) ==
    IF n = 0 THEN {{}}
    ELSE Installations(n - 1)
           \cup {s \cup {c} : s \in Installations(n - 1), c \in AllCandidates}

\* detectAll() is called.
detectAll ==
    /\ detection.call.pc \in {"idle", "returned"}
    /\ detection' = [detection EXCEPT !.call = [NoDetectAll EXCEPT !.pc = "detectGccArm"]]
    /\ UNCHANGED reading
    /\ ScanFrame

\* const gccResult = await this.detectGccArm(); if (gccResult) ...
AwaitDetectGccArm ==
    /\ detection.call.pc = "detectGccArm"
    /\ LET result == detectGccArm(detection.installed)
       IN detection' = [detection EXCEPT
                          !.call.gcc = result,
                          !.call.tools = Assign(@, "gcc", result),
                          !.call.pc = "detectOpenOCD"]
    /\ UNCHANGED reading
    /\ ScanFrame

AwaitDetectOpenOCD ==
    /\ detection.call.pc = "detectOpenOCD"
    /\ LET result == detectOpenOCD(detection.installed)
       IN detection' = [detection EXCEPT
                          !.call.openocd = result,
                          !.call.tools = Assign(@, "openocd", result),
                          !.call.pc = "detectCMake"]
    /\ UNCHANGED reading
    /\ ScanFrame

AwaitDetectCMake ==
    /\ detection.call.pc = "detectCMake"
    /\ LET result == detectCMake(detection.installed)
       IN detection' = [detection EXCEPT
                          !.call.cmake = result,
                          !.call.tools = Assign(@, "cmake", result),
                          !.call.pc = "detectNinja"]
    /\ UNCHANGED reading
    /\ ScanFrame

\* ... and after the last detector: return tools.
AwaitDetectNinja ==
    /\ detection.call.pc = "detectNinja"
    /\ LET result == detectNinja(detection.installed)
       IN detection' = [detection EXCEPT
                          !.call.ninja = result,
                          !.call.tools = Assign(@, "ninja", result),
                          !.call.pc = "returned"]
    /\ UNCHANGED reading
    /\ ScanFrame

InitDetect ==
    /\ InitProcesses
    /\ InitPlainEnv
    /\ CmdIdle
    /\ LaunchIdle
    /\ ChipIdle
    /\ PromptIdle
    /\ lookup = NoLookup
    /\ FlashIdle
    /\ debugCfg = NoDebugCfg
    /\ buildTypeSync = NoSync
    /\ reading = NoReading
    /\ FlowsIdle
    /\ detection \in {[installed |-> s, call |-> NoDetectAll] : s \in Installations(MaxInstalled)}

NextDetect ==
    \/ detectAll
    \/ AwaitDetectGccArm
    \/ AwaitDetectOpenOCD
    \/ AwaitDetectCMake
    \/ AwaitDetectNinja

SpecDetect == InitDetect /\ [][NextDetect]_vars

\* The place of a candidate in the order its detector looks in.
PlaceOf(tool, c) == CHOOSE i \in 1..Len(Candidates[tool]) : Candidates[tool][i] = c

\* The candidates of a tool that exist.
Existing(tool) ==
    {i \in 1..Len(Candidates[tool]) : Candidates[tool][i] \in detection.installed}

\* The result of a detector is the first of its candidates that exists, the
\* PATH ones before the common locations, and null only when none exists.
FirstExisting(tool) ==
    LET result == detection.call[tool]
    IN /\ (result = Null) <=> (Existing(tool) = {})
       /\ result # Null =>
            /\ result \in detection.installed
            /\ \A i \in Existing(tool) : PlaceOf(tool, result) <= i
            /\ (\E i \in Existing(tool) : Candidates[tool][i].via # "common")
                 => result.via # "common"

\* The fields of a tool are unset exactly when its detector returned null.
UnsetIffNull(tool) ==
    /\ detection.call[tool] = Null => ToolFields[tool] \cap detection.call.tools = {}
    /\ detection.call[tool] # Null => ToolFields[tool] \subseteq detection.call.tools

\* C17: when detectAll() has returned, each detector's result is the first of
\* its candidates that exists, looking in a fixed order with PATH before the
\* common install locations; it is null only if none of them exists; and the
\* fields of a tool are unset in the returned object exactly when its
\* detector returned null.
C17_FirstExistingCandidate ==
    detection.call.pc = "returned"
        => \A tool \in Detectors : FirstExisting(tool) /\ UnsetIffNull(tool)

\* detectAll() has returned with cmake found in PATH though a common location
\* holds it too, and with no GCC found: cmakePath is set and gccPath is not.
C17_FoundFirstOfTwo ==
    /\ detection.call.pc = "returned"
    /\ detection.call.cmake.via = "PATH"
    /\ \E i \in Existing("cmake") : Candidates["cmake"][i].via = "common"
    /\ detection.call.gcc = Null
    /\ "gccPath" \notin detection.call.tools
    /\ "cmakePath" \in detection.call.tools

\* ------------------------------------------------------------------------
\* Claims about build() and clean() of the CMakeBuilder
\* ------------------------------------------------------------------------
\* The cmake runs and deletions a step adds to the log of task t.
AddedBy(t) == SubSeq(task'[t].log, Len(task[t].log) + 1, Len(task'[t].log))

\* This step changes the handler of task t, or starts it.
Moves(t) == task'[t].cmd # "none" /\ (task[t].cmd = "none" \/ task'[t] # task[t])

\* The handler of task t awaits the configure run build() has started.
AwaitsBuildConfigure(t) == task[t].pid # 0 /\ task[t].stage = "build.configure"

\* What one step of the program may do to a build() call of task t.
BuildStep(t) ==
    LET old == task[t]
        new == task'[t]
        added == AddedBy(t)
    IN  (~cmakeToolsInstalled /\ Moves(t)) =>
            /\ \A i \in 1..Len(added) :
                 /\ added[i] = "build.configure" => ~cmakeCache
                 /\ added[i] = "compile" =>
                        IF AwaitsBuildConfigure(t)
                        THEN /\ proc[old.pid].promise = "resolved"
                             /\ proc[old.pid].life = "exited"
                        ELSE cmakeCache
            /\ (workspaceOpen /\ new.todo # <<>> /\ Head(new.todo) = "build"
                  /\ ~AwaitsBuildConfigure(t) /\ old.stage # "compile") =>
                   new.stage = IF cmakeCache THEN "compile" ELSE "build.configure"
            /\ (AwaitsBuildConfigure(t) /\ proc[old.pid].promise = "rejected") =>
                   /\ new.out = "error"
                   /\ new.log = old.log
                   /\ new.pid = 0
                   /\ proc' = Released(old.pid)

\* C18: without CMake Tools, build() starts with a configure run exactly when
\* the CMakeCache.txt it looks for is absent and compiles at once exactly when
\* it is there; after a configure run the compile process is spawned only
\* when the promise of that run has resolved (the process has exited); and
\* when it is rejected build() throws: nothing is spawned and the handler
\* ends in its catch block.
C18_ConfigureIffNoCache == [][\A t \in Tasks : BuildStep(t)]_vars

\* stm32.build found no CMakeCache.txt, configured, compiled and succeeded.
C18_ConfiguredThenCompiled ==
    /\ ~cmakeToolsInstalled
    /\ \E t \in Tasks :
         /\ task[t].cmd = "build"
         /\ task[t].log = <<"build.configure", "compile">>
         /\ task[t].out = "info"

\* What one step of the program may do to a clean() call of task t.
CleanStep(t) ==
    LET old == task[t]
        new == task'[t]
        added == AddedBy(t)
    IN  (~cmakeToolsInstalled /\ workspaceOpen /\ Moves(t)) =>
            /\ (new.todo # <<>> /\ Head(new.todo) = "clean") =>
                   new.stage = "clean" /\ new.out = "none"
            /\ (old.pid # 0 /\ old.stage = "clean") =>
                   /\ new.out # "error"
                   /\ new.todo = Tail(old.todo)
            /\ (\E i \in 1..Len(added) : added[i] = "delete") =>
                   /\ old.pid # 0
                   /\ old.stage = "clean"
                   /\ proc[old.pid].promise = "rejected"
                   /\ proc[old.pid].code # "0"
                   /\ proc[old.pid].life \in {"exited", "errored"}
            /\ (old.pid # 0 /\ old.stage = "clean" /\ proc[old.pid].code = "0") =>
                   /\ \A i \in 1..Len(added) : added[i] # "delete"
                   /\ cmakeCache' = cmakeCache

\* The build directory goes away only in the catch block of a clean().
DeletedOnlyByClean ==
    (~cmakeToolsInstalled /\ cmakeCache /\ ~cmakeCache') =>
        \E t \in Tasks :
            /\ task[t].pid # 0
            /\ task[t].stage = "clean"
            /\ proc[task[t].pid].promise = "rejected"

\* C19: without CMake Tools and with a workspace folder open, clean() spawns
\* its cmake run and never throws; it deletes the build directory only after
\* the promise of that run was rejected, and never after the run exited with
\* code 0.
C19_CleanNeverRejects == [][DeletedOnlyByClean /\ \A t \in Tasks : CleanStep(t)]_vars

\* stm32.clean has succeeded after a failed cmake run and the deletion.
C19_CleanedByDeleting ==
    /\ ~cmakeToolsInstalled
    /\ workspaceOpen
    /\ \E t \in Tasks :
         /\ task[t].cmd = "clean"
         /\ task[t].log = <<"clean", "delete">>
         /\ task[t].out = "info"

\* ------------------------------------------------------------------------
\* Activation: autoDetectChipOnStartup
\* ------------------------------------------------------------------------
\* What stm32.selectedChip may hold when the extension is activated: nothing,
\* a chip of the list, or a name typed into the settings in mixed case.
ChipSettings == {"", "STM32F103C8", "STM32F407xx"}

\* The chip the user picks in the lists of stm32.selectChip.
PickableChips == {"STM32F103C8", "STM32F407VG"}

\* The answers to the warning "chip differs": its three buttons, or closing it.
ChipChoices == {"useDetected", "keepCurrent", "manual", "dismissed"}

\* A step of the startup flow touches the setting, the flow and detectChip().
ChipFlowFrame ==
    UNCHANGED <<procVars, ocdVars, cmakeVars, cmdVars, launchVars, promptVars,
                notFlowVars, project, debugCmd, toolSettings, applyCall>>

\* autoDetectChipOnStartup() up to its first await: the setting is read, then
\* projectDetector.detectChip() is called.
autoDetectChipOnStartup ==
    /\ active
    /\ chipStartup.pc \in {"idle", "done"}
    /\ detect.pc \in {"idle", "done"}
    /\ chipStartup' = [NoChipStartup EXCEPT !.pc = "detecting", !.currentChip = selectedChip]
    /\ detect' = IF workspaceOpen
                 THEN [pc |-> "ioc", consulted |-> <<>>, chipName |-> ""]
                 ELSE [pc |-> "done", consulted |-> <<>>, chipName |-> ""]
    /\ UNCHANGED selectedChip
    /\ ChipFlowFrame

\* detectChip() has returned: nothing detected, no chip configured, a chip
\* that differs from the configured one, or the same chip.
AfterDetectChip ==
    /\ chipStartup.pc = "detecting"
    /\ detect.pc = "done"
    /\ LET detectedChip == detect.chipName
           currentChip == chipStartup.currentChip
       IN  IF detectedChip = ""
           THEN /\ chipStartup' = [chipStartup EXCEPT !.pc = "done"]
                /\ UNCHANGED selectedChip
           ELSE IF currentChip = ""
           THEN /\ selectedChip' = detectedChip
                /\ chipStartup' = [chipStartup EXCEPT !.pc = "done", !.write = "auto",
                                                      !.detectedChip = detectedChip]
           ELSE IF toUpperCase(currentChip) # toUpperCase(detectedChip)
           THEN /\ chipStartup' = [chipStartup EXCEPT !.pc = "prompt", !.asked = TRUE,
                                                      !.detectedChip = detectedChip]
                /\ UNCHANGED selectedChip
           ELSE /\ chipStartup' = [chipStartup EXCEPT !.pc = "done",
                                                      !.detectedChip = detectedChip]
                /\ UNCHANGED selectedChip
    /\ UNCHANGED detect
    /\ ChipFlowFrame

\* The warning is answered.
AnswerChipPrompt ==
    /\ chipStartup.pc = "prompt"
    /\ \E choice \in ChipChoices :
         CASE choice = "useDetected" ->
                /\ selectedChip' = chipStartup.detectedChip
                /\ chipStartup' = [chipStartup EXCEPT !.pc = "done", !.choice = choice,
                                                      !.write = "useDetected"]
           [] choice = "manual" ->
                /\ chipStartup' = [chipStartup EXCEPT !.pc = "selecting", !.choice = choice]
                /\ UNCHANGED selectedChip
           [] OTHER ->
                /\ chipStartup' = [chipStartup EXCEPT !.pc = "done", !.choice = choice]
                /\ UNCHANGED selectedChip
    /\ UNCHANGED detect
    /\ ChipFlowFrame

\* executeCommand('stm32.selectChip') from the warning: the user picks a chip
\* or closes the list.
ManualChipPick ==
    /\ chipStartup.pc = "selecting"
    /\ \E chip \in PickableChips \cup {""} :
         IF chip = ""
         THEN /\ chipStartup' = [chipStartup EXCEPT !.pc = "done"]
              /\ UNCHANGED selectedChip
         ELSE /\ selectedChip' = chip
              /\ chipStartup' = [chipStartup EXCEPT !.pc = "done", !.write = "picked"]
    /\ UNCHANGED detect
    /\ ChipFlowFrame

\* The user runs stm32.selectChip (status bar, command palette) and picks a
\* chip: selectChip() writes it to the workspace settings.
UserSelectsChip ==
    /\ active
    /\ workspaceOpen
    /\ chipStartup.pc # "selecting"
    /\ \E chip \in PickableChips :
         /\ selectedChip' = chip
         /\ chipStartup' = [chipStartup EXCEPT !.write = "picked"]
    /\ UNCHANGED detect
    /\ ChipFlowFrame

InitChipStartup ==
    /\ InitProcesses
    /\ cmakeToolsInstalled = FALSE
    /\ workspaceOpen \in BOOLEAN
    /\ hasPresets = FALSE
    /\ cmakeCache = FALSE
    /\ CmdIdle
    /\ LaunchIdle
    /\ PromptIdle
    /\ lookup = NoLookup
    /\ FlashIdle
    /\ debugCfg = NoDebugCfg
    /\ buildTypeSync = NoSync
    /\ ScanIdle
    /\ project \in [mcuName : McuNames, userName : UserNames, cmake : CMakeChips,
                     startup : StartupFiles, linker : LinkerScripts]
    /\ detect = NoDetect
    /\ selectedChip \in ChipSettings
    /\ chipStartup = NoChipStartup
    /\ debugCmd = NoDebugCmd
    /\ toolSettings = NoToolSettings
    /\ applyCall = NoApplyCall

NextChipStartup ==
    \/ autoDetectChipOnStartup
    \/ \E i \in 1..Len(Sources) : DetectStep(i)
    \/ AfterDetectChip
    \/ AnswerChipPrompt
    \/ ManualChipPick
    \/ UserSelectsChip

SpecChipStartup == InitChipStartup /\ [][NextChipStartup]_vars

\* What one step may do to stm32.selectedChip.
ChipSettingStep ==
    /\ (selectedChip # "" /\ selectedChip' # selectedChip) =>
           chipStartup'.write \in {"useDetected", "picked"}
    /\ (chipStartup.pc = "prompt" /\ chipStartup'.choice \in {"keepCurrent", "dismissed"}) =>
           selectedChip' = selectedChip
    /\ (chipStartup.pc = "detecting" /\ chipStartup'.pc # "detecting"
          /\ detect.chipName # "" /\ selectedChip # ""
          /\ toUpperCase(selectedChip) = toUpperCase(detect.chipName)) =>
           selectedChip' = selectedChip /\ ~chipStartup'.asked
    /\ (chipStartup.pc = "detecting" /\ chipStartup'.pc # "detecting"
          /\ detect.chipName # "" /\ selectedChip = "") =>
           selectedChip' = detect.chipName /\ ~chipStartup'.asked

\* C21: autoDetectChipOnStartup changes a configured stm32.selectedChip only
\* through the user's choice of "use the detected chip" or a chip the user
\* picked; keeping the configuration, dismissing the prompt or a detected
\* chip equal to the configured one (ignoring case) leave it unchanged; with
\* no chip configured the detected chip is stored without a prompt.
C21_NoChangeWithoutConsent == [][ChipSettingStep]_vars

\* ------------------------------------------------------------------------
\* The stm32.debug command
\* ------------------------------------------------------------------------
\* A step of stm32.debug leaves the other flows and utilities alone.
DebugFrame ==
    UNCHANGED <<timers, openocdProcess, active, envVars, cmdVars, chipVars, promptVars,
                notFlowVars, selectedChip, chipStartup, toolSettings, applyCall>>

\* The handler of stm32.debug up to its first await.  Without Cortex-Debug
\* it shows the error message with the install button; with it, it calls
\* cmake.build or cmakeBuilder.build().
stm32DebugCommand ==
    /\ active
    /\ Quiescent
    /\ debugCmd.pc \in {"idle", "done", "failed"}
    /\ \A t \in Tasks : task[t].cmd # "debug"
    /\ justStopped' = FALSE
    /\ IF ~debugCmd.cortexDebug
       THEN /\ debugCmd' = [debugCmd EXCEPT !.pc = "installPrompt", !.log = <<"check">>,
                                            !.started = "none"]
            /\ UNCHANGED <<proc, buildProcess, task>>
       ELSE /\ debugCmd' = [debugCmd EXCEPT !.pc = "building", !.log = <<"check", "build">>,
                                            !.started = "none"]
            /\ \E t \in Tasks :
                 /\ task[t].cmd = "none"
                 /\ \A u \in Tasks : u < t => task[u].cmd # "none"
                 /\ Continue(t, [NoTask EXCEPT !.cmd = "debug", !.todo = Ops("debug")], proc)
    /\ UNCHANGED <<cmakeCache, launchVars>>
    /\ DebugFrame

\* The error message is answered: the install button runs
\* workbench.extensions.installExtension; in either case the handler returns.
AnswerInstallPrompt ==
    /\ debugCmd.pc = "installPrompt"
    /\ \E install \in BOOLEAN, installed \in BOOLEAN :
         debugCmd' = [debugCmd EXCEPT !.pc = "done",
                                      !.cortexDebug = install /\ installed]
    /\ justStopped' = FALSE
    /\ UNCHANGED <<proc, buildProcess, task, cmakeCache, launchVars>>
    /\ DebugFrame

\* generateLaunchJson(false) as generateAndStartDebug() calls it: the file
\* it leaves and whether it returned the name or threw.
LaunchJsonAfter(file, elfFile) ==
    IF ~workspaceOpen \/ ~elfFile
    THEN [outcome |-> "thrown", file |-> file]
    ELSE IF ~file.exists
    THEN [outcome |-> "written", file |-> Written(<<debugConfig>>)]
    ELSE IF ~JSONParses(file)
    THEN [outcome |-> "written", file |-> Written(WithDebugConfig(<<>>))]
    ELSE IF ~file.hasConfigurations
    THEN [outcome |-> "thrown", file |-> file]
    ELSE [outcome |-> "written", file |-> Written(WithDebugConfig(file.configurations))]

\* The handler goes on after the build whatever its outcome was.
DebugAfterBuild_IgnoresFailure ==
    /\ debugCmd.pc = "building"
    /\ \E t \in Tasks :
         /\ task[t].cmd = "debug"
         /\ Retirable(t)
         /\ task' = [task EXCEPT ![t] = NoTask]
         /\ \E elfFile \in BOOLEAN :
              LET after == LaunchJsonAfter(launchJson, elfFile)
              IN  /\ launchBefore' = launchJson
                  /\ launchOutcome' = after.outcome
                  /\ launchJson' = after.file
                  /\ debugCmd' =
                       IF after.outcome = "thrown"
                       THEN [debugCmd EXCEPT !.pc = "failed"]
                       ELSE [debugCmd EXCEPT !.pc = "done",
                                             !.log = @ \o <<"write", "start">>,
                                             !.started = debugConfig.name]
    /\ justStopped' = FALSE
    /\ UNCHANGED <<proc, buildProcess, cmakeCache>>
    /\ DebugFrame

\* The awaited build has settled.  A rejection ends in the catch block of the
\* handler.  Otherwise generateAndStartDebug(): without a workspace folder an
\* error message and nothing else; generateLaunchJson(false) throws or writes
\* launch.json and returns the name; vscode.debug.startDebugging(folder, name).
DebugAfterBuild ==
    /\ debugCmd.pc = "building"
    /\ \E t \in Tasks :
         /\ task[t].cmd = "debug"
         /\ Retirable(t)
         /\ task' = [task EXCEPT ![t] = NoTask]
         /\ IF task[t].out = "error"
            THEN /\ debugCmd' = [debugCmd EXCEPT !.pc = "failed"]
                 /\ UNCHANGED launchVars
            ELSE IF ~workspaceOpen
            THEN /\ debugCmd' = [debugCmd EXCEPT !.pc = "done"]
                 /\ UNCHANGED launchVars
            ELSE \E elfFile \in BOOLEAN :
                   LET after == LaunchJsonAfter(launchJson, elfFile)
                   IN  /\ launchBefore' = launchJson
                       /\ launchOutcome' = after.outcome
                       /\ launchJson' = after.file
                       /\ debugCmd' =
                            IF after.outcome = "thrown"
                            THEN [debugCmd EXCEPT !.pc = "failed"]
                            ELSE [debugCmd EXCEPT !.pc = "done",
                                                  !.log = @ \o <<"write", "start">>,
                                                  !.started = debugConfig.name]
    /\ justStopped' = FALSE
    /\ UNCHANGED <<proc, buildProcess, cmakeCache>>
    /\ DebugFrame

InitDebug ==
    /\ InitProcesses
    /\ InitEnv
    /\ CmdIdle
    /\ ChipIdle
    /\ PromptIdle
    /\ lookup = NoLookup
    /\ FlashIdle
    /\ debugCfg = NoDebugCfg
    /\ buildTypeSync = NoSync
    /\ ScanIdle
    /\ selectedChip = ""
    /\ chipStartup = NoChipStartup
    /\ debugCmd \in {[NoDebugCmd EXCEPT !.cortexDebug = b] : b \in BOOLEAN}
    /\ toolSettings = NoToolSettings
    /\ applyCall = NoApplyCall
    /\ launchJson \in LaunchFiles
    /\ launchBefore = NoFile
    /\ launchOutcome = "none"

NextDebug ==
    \/ stm32DebugCommand
    \/ AnswerInstallPrompt
    \/ DebugAfterBuild
    \/ cancelBuild
    \/ \E t \in Tasks : DelegateDone(t)
    \/ \E t \in Tasks : Resume(t)
    \/ \E p \in Pids : OnCMakeClose(p)
    \/ \E p \in Pids : OnCMakeError(p)
    \/ \E p \in Pids : Reap(p)

SpecDebug == InitDebug /\ [][NextDebug]_vars

\* The steps of stm32.debug in the order the claim gives them.
DebugSteps == <<"check", "build", "write", "start">>

\* The steps taken so far are the first ones of DebugSteps, in order.
StepsSoFar(log) == Len(log) <= Len(DebugSteps) /\ log = SubSeq(DebugSteps, 1, Len(log))

\* The build of task t has failed: its operation threw or its promise was
\* rejected.
BuildFails(t) ==
    /\ task[t].cmd = "debug"
    /\ \/ task[t].out = "error"
       \/ task[t].pid # 0 /\ proc[task[t].pid].promise = "rejected"
       \/ task'[t].out = "error"

\* What one step may do to launch.json and the debug session.
DebugStep ==
    /\ StepsSoFar(debugCmd'.log)
    /\ (~debugCmd.cortexDebug /\ debugCmd'.log # debugCmd.log) =>
           /\ debugCmd'.log = <<"check">>
           /\ UNCHANGED <<task, proc, launchJson>>
    /\ (\E t \in Tasks : BuildFails(t)) =>
           /\ launchJson' = launchJson
           /\ debugCmd'.started = "none"
           /\ debugCmd'.log = debugCmd.log
           /\ \A t \in Tasks : BuildFails(t) => task'[t].pid = 0
    /\ launchJson' # launchJson =>
           /\ debugCmd.log = <<"check", "build">>
           /\ \E t \in Tasks : task[t].cmd = "debug" /\ task[t].out = "info"
    /\ (debugCmd'.started # "none" /\ debugCmd'.started # debugCmd.started) =>
           /\ launchOutcome' = "written"
           /\ \E i \in 1..Len(launchJson'.configurations) :
                /\ launchJson'.configurations[i] = debugConfig
                /\ debugCmd'.started = launchJson'.configurations[i].name
           /\ debugCmd'.log = DebugSteps

ApplyFrame ==
    UNCHANGED <<procVars, ocdVars, cmakeVars, cmdVars, launchVars, chipVars, promptVars,
                lookup, flashVars, debugCfg, buildTypeSync, reading,
                selectedChip, chipStartup, debugCmd>>

\* The empty string findOpenOCDScripts() returns when no scripts directory
\* exists.
EmptyPath == [via |-> "empty", name |-> "", dir |-> 0]

\* if (tools.<field>): the field is neither undefined nor ''.
Truthy(value) == value \notin {Null, EmptyPath}

\* findOpenOCDScripts(basePath): the first of the four possible directories
\* that exists, else ''.
findOpenOCDScripts(openocd, scriptsDir) ==
    IF scriptsDir THEN [via |-> "scripts", name |-> openocd.name, dir |-> openocd.dir]
    ELSE EmptyPath

\* The DetectedTools object detectAll() returns.
DetectedTools(call, scriptsDir) ==
    [gccPath |-> call.gcc,
     openocdPath |-> call.openocd,
     openocdScriptsPath |-> IF call.openocd # Null
                            THEN findOpenOCDScripts(call.openocd, scriptsDir) ELSE Null,
     cmakePath |-> call.cmake,
     ninjaPath |-> call.ninja]

\* The field of DetectedTools applyDetectedTools() writes to a key.
FieldOf ==
    [toolchainPath |-> "gccPath", openocdPath |-> "openocdPath",
     openocdScriptsPath |-> "openocdScriptsPath", cmakePath |-> "cmakePath"]

\* The order applyDetectedTools() goes through the keys in.
ApplyOrder == <<"toolchainPath", "openocdPath", "openocdScriptsPath", "cmakePath">>

\* A command starts detectAll().
StartDetectAll(cmd) ==
    /\ applyCall.pc \in {"idle", "done"}
    /\ detection.call.pc \in {"idle", "returned"}
    /\ detection' = [detection EXCEPT !.call = [NoDetectAll EXCEPT !.pc = "detectGccArm"]]
    /\ applyCall' = [NoApplyCall EXCEPT !.cmd = cmd, !.pc = "detecting",
                                        !.scriptsDir = applyCall.scriptsDir]
    /\ UNCHANGED toolSettings
    /\ ApplyFrame

\* stm32.detectToolchain: showDetectionResultsAndApply() up to its await of
\* detectAll().
showDetectionResultsAndApply == StartDetectAll("detectToolchain")

\* stm32.autoDetectToolchain up to its await of detectAll().
autoDetectToolchain == StartDetectAll("autoDetectToolchain")

\* detectAll() has returned.  showDetectionResultsAndApply() warns and
\* returns when no tool was found and asks otherwise; the silent command
\* goes on to applyDetectedTools() when gcc or OpenOCD was found.
AfterDetectAll ==
    /\ applyCall.pc = "detecting"
    /\ detection.call.pc = "returned"
    /\ LET tools == DetectedTools(detection.call, applyCall.scriptsDir)
           found == {f \in {"gccPath", "openocdPath", "cmakePath", "ninjaPath"} :
                       Truthy(tools[f])}
       IN  applyCall' =
             IF applyCall.cmd = "detectToolchain"
             THEN IF found = {}
                  THEN [applyCall EXCEPT !.tools = tools, !.pc = "done",
                                         !.message = "warning"]
                  ELSE [applyCall EXCEPT !.tools = tools, !.pc = "asking"]
             ELSE IF Truthy(tools.gccPath) \/ Truthy(tools.openocdPath)
                  THEN [applyCall EXCEPT !.tools = tools, !.pc = "apply1"]
                  ELSE [applyCall EXCEPT !.tools = tools, !.pc = "done"]
    /\ UNCHANGED <<toolSettings, detection>>
    /\ ApplyFrame

\* The user answers the modal question: apply, cancel, or closes it.
AnswerApplyQuestion ==
    /\ applyCall.pc = "asking"
    /\ \E choice \in {"apply", "cancel", "closed"} :
         applyCall' = [applyCall EXCEPT !.choice = choice,
                                        !.pc = IF choice = "apply" THEN "apply1" ELSE "done"]
    /\ UNCHANGED <<toolSettings, detection>>
    /\ ApplyFrame

\* The place in ApplyOrder applyDetectedTools() stands at.
ApplyPlace == CHOOSE i \in 1..4 : applyCall.pc = <<"apply1", "apply2", "apply3", "apply4">>[i]

\* The key is written without looking at what was detected.
applyDetectedTools_WritesAll ==
    /\ applyCall.pc \in {"apply1", "apply2", "apply3", "apply4"}
    /\ LET key == ApplyOrder[ApplyPlace]
           value == applyCall.tools[FieldOf[key]]
           next == IF ApplyPlace = 4 THEN "done"
                   ELSE <<"apply2", "apply3", "apply4">>[ApplyPlace]
       IN  /\ toolSettings' = [toolSettings EXCEPT ![key] = value]
           /\ applyCall' = [applyCall EXCEPT !.written = @ \cup {key}, !.pc = next,
                                  !.message = IF next = "done" /\ applyCall.cmd = "detectToolchain"
                                              THEN "updated" ELSE @]
    /\ UNCHANGED detection
    /\ ApplyFrame

\* applyDetectedTools(tools), one key at a time:
\* if (tools.<field>) await config.update(key, tools.<field>, Global).
applyDetectedTools ==
    /\ applyCall.pc \in {"apply1", "apply2", "apply3", "apply4"}
    /\ LET key == ApplyOrder[ApplyPlace]
           value == applyCall.tools[FieldOf[key]]
           next == IF ApplyPlace = 4 THEN "done"
                   ELSE <<"apply2", "apply3", "apply4">>[ApplyPlace]
       IN  /\ toolSettings' = IF Truthy(value) THEN [toolSettings EXCEPT ![key] = value]
                              ELSE toolSettings
           /\ applyCall' = [applyCall EXCEPT
                                  !.written = IF Truthy(value) THEN @ \cup {key} ELSE @,
                                  !.pc = next,
                                  !.message = IF next = "done" /\ applyCall.cmd = "detectToolchain"
                                              THEN "updated" ELSE @]
    /\ UNCHANGED detection
    /\ ApplyFrame

\* The executables detectAll() may find here: each tool on PATH or not.
OnPath == {InPath(gccNames[1]), InPath(openocdNames[1]), InPath(cmakeNames[1]),
           InPath(ninjaNames[1])}

InitApply ==
    /\ InitProcesses
    /\ InitPlainEnv
    /\ CmdIdle
    /\ LaunchIdle
    /\ ChipIdle
    /\ PromptIdle
    /\ lookup = NoLookup
    /\ FlashIdle
    /\ debugCfg = NoDebugCfg
    /\ buildTypeSync = NoSync
    /\ reading = NoReading
    /\ selectedChip = ""
    /\ chipStartup = NoChipStartup
    /\ debugCmd = NoDebugCmd
    /\ detection \in {[installed |-> s, call |-> NoDetectAll] : s \in SUBSET OnPath}
    /\ toolSettings \in [AppliedKeys \cup OtherKeys -> {NotSet, UserValue}]
    /\ applyCall \in {[NoApplyCall EXCEPT !.scriptsDir = b] : b \in BOOLEAN}

NextApply ==
    \/ showDetectionResultsAndApply
    \/ autoDetectToolchain
    \/ AwaitDetectGccArm
    \/ AwaitDetectOpenOCD
    \/ AwaitDetectCMake
    \/ AwaitDetectNinja
    \/ AfterDetectAll
    \/ AnswerApplyQuestion
    \/ applyDetectedTools

SpecApply == InitApply /\ [][NextApply]_vars

\* The detector whose result a key is written from.
ToolOf ==
    [toolchainPath |-> "gcc", openocdPath |-> "openocd", openocdScriptsPath |-> "openocd",
     cmakePath |-> "cmake"]

\* A step changes a setting only if the key is one of the four, its tool was
\* detected by the detectAll() of the running command, the value written is
\* what was detected and, under stm32.detectToolchain, the user chose to
\* apply.
ApplyStep ==
    \A key \in AppliedKeys \cup OtherKeys :
        toolSettings'[key] # toolSettings[key] =>
            /\ key \in AppliedKeys
            /\ detection.call.pc = "returned"
            /\ detection.call[ToolOf[key]] # Null
            /\ toolSettings'[key]
                 = DetectedTools(detection.call, applyCall.scriptsDir)[FieldOf[key]]
            /\ toolSettings'[key] \notin {Null, EmptyPath, NotSet}
            /\ applyCall.cmd = "detectToolchain" => applyCall.choice = "apply"

\* C23: showDetectionResultsAndApply changes no stm32.* setting unless the
\* user chooses to apply, and applyDetectedTools writes only those of
\* toolchainPath, openocdPath, openocdScriptsPath and cmakePath whose tool
\* was detected; the settings of the tools not detected and every other key
\* stay as they were.
C23_AppliesOnlyDetected == [][ApplyStep]_vars

\* The user applied a detection that found gcc but no cmake: toolchainPath
\* was written and the user's cmakePath is still there.
C23_AppliedGccNotCMake ==
    /\ applyCall.cmd = "detectToolchain"
    /\ applyCall.pc = "done"
    /\ applyCall.choice = "apply"
    /\ "toolchainPath" \in applyCall.written
    /\ toolSettings.toolchainPath = InPath(gccNames[1])
    /\ detection.call.cmake = Null
    /\ toolSettings.cmakePath = UserValue

\* ---------------------------------------------------------------------
\* Claims about 'stm32.toolchainPrompted'

\* The flag is set by the answer 'do not ask again' and by nothing else, and
\* is never cleared; an activation that finds it set does not ask.
DeclineStep ==
    /\ toolchainPrompted => toolchainPrompted'
    /\ toolchainPrompted' # toolchainPrompted =>
           session = "prompt" /\ startup'.answer = "never"
    /\ (session = "prompt" /\ session' = "ready" /\ startup'.answer = "never") =>
           toolchainPrompted'
    /\ (session = "inactive" /\ session' # "inactive" /\ toolchainPrompted) =>
           ~startup'.asked /\ session' = "ready"

\* An activation after one that asked and was not answered with 'do not ask
\* again', with the two paths as that one found them, asks again.
AsksAgainStep ==
    (/\ session = "inactive"
     /\ session' # "inactive"
     /\ startup.asked
     /\ startup.answer # "never"
     /\ settings = startup.found) =>
        startup'.asked /\ session' = "prompt"

C25_HandleReflectsLiveServer ==
    \A p \in Pids :
        (proc[p].kind = "server" /\ proc[p].life = "running") => isRunning

====
